---------------------------- MODULE Spec2Model ----------------------------
(***************************************************************************)
(* A model of the URL reputation pipeline of AVQON (antivirus-core):       *)
(*   - the admin cache operations of app/admin_ui.py (recheck of a URL,    *)
(*     bulk refresh of cached entries) over the whitelist / blacklist      *)
(*     stores of db_manager;                                               *)
(*   - the URL risk model of app/ml_url_model.py (loading, evaluate);      *)
(*   - the external signal clients of app/external_apis.                   *)
(*                                                                         *)
(* Text (URLs, API keys, targets) is a tuple of one-character strings, so  *)
(* that lower(), strip(), len() and substring tests are computed.          *)
(***************************************************************************)
EXTENDS Integers, Sequences, FiniteSets, TLC

(***************************************************************************)
(* Text helpers: str.lower(), str.strip(), "x in s", s.startswith(p).      *)
(***************************************************************************)
LowerCh(c) ==
    CASE c = "A" -> "a"
      [] c = "B" -> "b"
      [] c = "C" -> "c"
      [] c = "D" -> "d"
      [] c = "E" -> "e"
      [] c = "F" -> "f"
      [] c = "G" -> "g"
      [] c = "H" -> "h"
      [] c = "I" -> "i"
      [] c = "J" -> "j"
      [] c = "K" -> "k"
      [] c = "L" -> "l"
      [] c = "M" -> "m"
      [] c = "N" -> "n"
      [] c = "O" -> "o"
      [] c = "P" -> "p"
      [] c = "Q" -> "q"
      [] c = "R" -> "r"
      [] c = "S" -> "s"
      [] c = "T" -> "t"
      [] c = "U" -> "u"
      [] c = "V" -> "v"
      [] c = "W" -> "w"
      [] c = "X" -> "x"
      [] c = "Y" -> "y"
      [] c = "Z" -> "z"
      [] OTHER -> c

Lower(s) == [i \in 1..Len(s) |-> LowerCh(s[i])]

RECURSIVE LStrip(_)
LStrip(s) == IF s # <<>> /\ Head(s) = " " THEN LStrip(Tail(s)) ELSE s

RECURSIVE RStrip(_)
RStrip(s) ==
    IF s # <<>> /\ s[Len(s)] = " " THEN RStrip(SubSeq(s, 1, Len(s) - 1)) ELSE s

Strip(s) == RStrip(LStrip(s))

StartsWith(s, p) == Len(s) >= Len(p) /\ SubSeq(s, 1, Len(p)) = p

\* Python's "p in s" for strings
Contains(s, p) ==
    \E i \in 0..(Len(s) - Len(p)) : SubSeq(s, i + 1, i + Len(p)) = p

Max(a, b) == IF a >= b THEN a ELSE b
Min(a, b) == IF a <= b THEN a ELSE b

(***************************************************************************)
(* The state.                                                              *)
(***************************************************************************)
VARIABLES
    whitelist,  \* cached_whitelist: the URLs it holds
    blacklist,  \* cached_blacklist: the URLs it holds
    task,       \* per request handler: where it is and its locals
    mlPhase,    \* "boot" before UrlRiskMlModel() is constructed, then "serving"
    mlFile,     \* the file the constructor found
    mlModel,    \* _weights, _bias, _threshold_*, whether _model_path is set
    mlCall,     \* the evaluate call in progress: its arguments and its result
    apiPhase,   \* "boot" before the clients are constructed, then "ready"
    apiConfig,  \* config.WHOISXML_API_KEY, config.URLSCAN_API_KEY
    whois,      \* WhoisXMLClient: api_key, whether its session is open
    urlscan,    \* URLScanClient: api_key, whether its session is open
    vtUsed,     \* VirusTotal calls counted by the rate limiter this hour
    whoisCache, \* _whois_cache: domain -> (age, timestamp)
    clock,      \* time.time(), in seconds
    apiCall,    \* per caller: the client call in progress, its locals and result
    sslCache,   \* _ssl_cache: hostname -> (dict, timestamp)
    ticks,      \* how many times the clock has advanced
    payment,    \* the yookassa_payments row of the payment
    user,       \* the users row of the payer
    keysIssued, \* license keys the internal API has generated for the payer
    payCall,    \* per request: the payment handler in progress and its locals
    deliveries, \* webhook deliveries and status checks begun so far
    posts,      \* raw_posts joined with content_hashes: post_id -> row
    matches,    \* the matches table, in match_id order
    worker,     \* run_worker_once: where it is and its locals
    notifier    \* send_match_notifications: where it is and its locals

cacheVars == <<whitelist, blacklist, task>>
mlVars    == <<mlPhase, mlFile, mlModel, mlCall>>
apiVars   == <<apiPhase, apiConfig, whois, urlscan, vtUsed, whoisCache, clock,
               apiCall, sslCache, ticks>>
payVars   == <<payment, user, keysIssued, payCall, deliveries>>
monVars   == <<posts, matches, worker, notifier>>
vars      == <<cacheVars, mlVars, apiVars, payVars, monVars>>

\* What an operation of one part leaves alone.
OutsideCache == <<mlVars, apiVars, payVars, monVars>>
OutsideMl    == <<cacheVars, apiVars, payVars, monVars>>
OutsideApi   == <<cacheVars, mlVars, payVars, monVars>>
OutsidePay   == <<cacheVars, mlVars, apiVars, monVars>>
OutsideMon   == <<cacheVars, mlVars, apiVars, payVars>>

(***************************************************************************)
(* Part 1.  Reputation stores and the admin cache operations.              *)
(***************************************************************************)

\* The URLs the operations are applied to.
Urls == {"u1", "u2"}

\* A cached record that carries neither a url nor a domain
NoUrl == "no_url"
Rows == Urls \cup {NoUrl}
Usable(u) == u # NoUrl

\* Number of request handlers that may be in flight at once.
MaxTasks == 2
Tasks == 1..MaxTasks

\* admin_ui.py:87  limit = max(1, min(limit, 50))
MaxBatch == 50

\* Values of the form fields of POST /cache/refresh.
TargetInputs ==
    { <<"w","h","i","t","e","l","i","s","t">>,
      <<"B","l","a","c","k","l","i","s","t">>,
      <<"a","l","l">>,
      <<"A","L","L">>,
      <<"w","h","i","t","e">>,
      <<"W","H","I","T","E","L","I","S","T">>,
      <<>> }
\* The targets of the refreshes that run side by side: one per selection.
ConcurrentTargets ==
    { <<"w","h","i","t","e","l","i","s","t">>,
      <<"B","l","a","c","k","l","i","s","t">>,
      <<"a","l","l">> }
\* and their limits: one entry, or two.
ConcurrentLimits == {1, 2}
LimitInputs == {-1, 1, 2, 51}

\* What analysis_service.analyze_url can come back with: result["safe"] is
\* True, False or anything else, or the call raises.
Verdicts == {"safe", "unsafe", "undetermined", "raise"}

ZeroSummary == [processed |-> 0, whitelist |-> 0, blacklist |-> 0, errors |-> 0]

\* entries: the entries still to go; batch: how many the handler took;
\* stored: whether the store call after the last analysis went through;
\* target, stores: the target argument and the targets list made of it.
IdleTask ==
    [kind |-> "idle", pc |-> "idle", url |-> "", entries |-> <<>>,
     res |-> "none", had |-> "none", summary |-> ZeroSummary,
     limit |-> 0, batch |-> 0, stored |-> TRUE,
     target |-> <<>>, stores |-> <<>>]

\* No handler is in flight, none is waiting to return.
AllIdle == \A t \in Tasks : task[t].pc = "idle"

\* Every operation that was started has completed.
NoneInFlight == \A t \in Tasks : task[t].pc \in {"idle", "done"}

\* Which stores hold u (recorded when a recheck starts, to state its effect).
Holding(u) ==
    IF u \in whitelist /\ u \in blacklist THEN "both"
    ELSE IF u \in whitelist THEN "white"
    ELSE IF u \in blacklist THEN "black"
    ELSE "none"

--------------------------------------------------------------------------
\* db_manager (app/database.py): the store operations the handlers call.

\* invalidate(url): the record leaves whichever store holds it.
MarkUrlAsSafeWhite(u) == whitelist \ {u}
MarkUrlAsSafeBlack(u) == blacklist \ {u}

\* write(url, verdict, metadata) into the named store.
SaveWhitelistEntry(u) == whitelist \cup {u}
SaveBlacklistEntry(u) == blacklist \cup {u}

\* The injective sequences of length n over S.
RECURSIVE InjSeqs(_, _)
InjSeqs(S, n) ==
    IF n = 0 THEN {<<>>}
    ELSE UNION { { <<x>> \o s : s \in InjSeqs(S \ {x}, n - 1) } : x \in S }

\* get_cached_entries(store, limit): at most limit records of the store.
GetCachedEntries(store, limit) ==
    LET S == IF store = "whitelist" THEN whitelist ELSE blacklist
    IN  InjSeqs(S, Min(limit, Cardinality(S)))

--------------------------------------------------------------------------
\* A recheck that forgets to remove the record before the analysis.
RecheckBeginNoRemove(t, u) ==
    /\ task[t].pc = "idle"
    /\ task' = [task EXCEPT ![t] =
                  [IdleTask EXCEPT !.kind = "recheck", !.pc = "await",
                                   !.url = u, !.had = Holding(u)]]
    /\ UNCHANGED <<whitelist, blacklist, OutsideCache>>

\* recheck_url_action, up to its await: the record is removed, then the
\* fresh analysis is awaited.
RecheckBegin(t, u) ==
    /\ task[t].pc = "idle"
    /\ whitelist' = MarkUrlAsSafeWhite(u)
    /\ blacklist' = MarkUrlAsSafeBlack(u)
    /\ task' = [task EXCEPT ![t] =
                  [IdleTask EXCEPT !.kind = "recheck", !.pc = "await",
                                   !.url = u, !.had = Holding(u)]]
    /\ UNCHANGED OutsideCache

\* A recheck that puts the removed record back when the analysis gave no
\* verdict.
RecheckResumeRestoring(t, v, ok) ==
    /\ task[t].kind = "recheck"
    /\ task[t].pc = "await"
    /\ whitelist' = IF (v = "safe" /\ ok) \/ (v \in {"undetermined", "raise"} /\ task[t].had = "white")
                    THEN SaveWhitelistEntry(task[t].url)
                    ELSE whitelist
    /\ blacklist' = IF (v = "unsafe" /\ ok) \/ (v \in {"undetermined", "raise"} /\ task[t].had = "black")
                    THEN SaveBlacklistEntry(task[t].url)
                    ELSE blacklist
    /\ task' = [task EXCEPT ![t].pc = "done", ![t].res = v,
                            ![t].stored = (ok \/ v \notin {"safe", "unsafe"})]
    /\ UNCHANGED OutsideCache

\* recheck_url_action, from the result of the analysis to its return; ok:
\* the store call goes through (it raises otherwise, which the handler logs).
RecheckResume(t, v, ok) ==
    /\ task[t].kind = "recheck"
    /\ task[t].pc = "await"
    /\ whitelist' = IF v = "safe" /\ ok THEN SaveWhitelistEntry(task[t].url)
                    ELSE whitelist
    /\ blacklist' = IF v = "unsafe" /\ ok THEN SaveBlacklistEntry(task[t].url)
                    ELSE blacklist
    /\ task' = [task EXCEPT ![t].pc = "done", ![t].res = v,
                            ![t].stored = (ok \/ v \notin {"safe", "unsafe"})]
    /\ UNCHANGED OutsideCache

\* A targets list made without lowering the target first.
RefreshTargetsExact(target) ==
    LET tl == target
        t1 == IF tl \in {<<"w","h","i","t","e","l","i","s","t">>, <<"a","l","l">>}
              THEN <<"whitelist">> ELSE <<>>
        t2 == IF tl \in {<<"b","l","a","c","k","l","i","s","t">>, <<"a","l","l">>}
              THEN t1 \o <<"blacklist">> ELSE t1
    IN  IF t2 = <<>> THEN <<"whitelist", "blacklist">> ELSE t2

\* The targets list of _refresh_cache_entries.
RefreshTargets(target) ==
    LET tl == Lower(target)
        t1 == IF tl \in {<<"w","h","i","t","e","l","i","s","t">>, <<"a","l","l">>}
              THEN <<"whitelist">> ELSE <<>>
        t2 == IF tl \in {<<"b","l","a","c","k","l","i","s","t">>, <<"a","l","l">>}
              THEN t1 \o <<"blacklist">> ELSE t1
    IN  IF t2 = <<>> THEN <<"whitelist", "blacklist">> ELSE t2

ClampLimit(limit) == Max(1, Min(limit, MaxBatch))

\* Batches that are not cut to limit after the stores' entries are joined.
RefreshBatchesUncut(target, limit) ==
    LET lim == ClampLimit(limit)
        ts  == RefreshTargets(target)
        per == [i \in 1..Len(ts) |-> GetCachedEntries(ts[i], lim)]
    IN  IF Len(ts) = 1 THEN per[1]
        ELSE { a \o b : a \in per[1], b \in per[2] }

\* The batches _refresh_cache_entries can take: the entries of each target
\* store, concatenated, cut to limit.
RefreshBatches(target, limit) ==
    LET lim == ClampLimit(limit)
        ts  == RefreshTargets(target)
        per == [i \in 1..Len(ts) |-> GetCachedEntries(ts[i], lim)]
        all == IF Len(ts) = 1 THEN per[1]
               ELSE { a \o b : a \in per[1], b \in per[2] }
    IN  { SubSeq(e, 1, Min(lim, Len(e))) : e \in all }

\* The entries at the head of es that have no url and no domain: the loop
\* counts an error for each and goes on without awaiting.
RECURSIVE LeadingBare(_)
LeadingBare(es) ==
    IF es = <<>> \/ Usable(Head(es)) THEN 0 ELSE 1 + LeadingBare(Tail(es))
DropBare(es) == SubSeq(es, LeadingBare(es) + 1, Len(es))

\* _refresh_cache_entries, up to the first await (or to its return when no
\* entry of the batch has a url).
RefreshBegin(t, target, limit) ==
    /\ task[t].pc = "idle"
    /\ \E batch \in RefreshBatches(target, limit) :
         task' = [task EXCEPT ![t] =
                    [IdleTask EXCEPT !.kind = "refresh",
                                     !.pc = IF DropBare(batch) = <<>> THEN "done" ELSE "await",
                                     !.entries = DropBare(batch),
                                     !.limit = limit,
                                     !.target = target,
                                     !.stores = RefreshTargets(target),
                                     !.batch = Len(batch),
                                     !.summary.errors = LeadingBare(batch)]]
    /\ UNCHANGED <<whitelist, blacklist, OutsideCache>>

\* The summary after the analysis of one entry came back with v and the
\* store call that follows it went through (ok) or raised.
CountEntry(s, v, ok) ==
    IF v = "raise" THEN [s EXCEPT !.errors = @ + 1]
    ELSE [s EXCEPT !.processed = @ + 1,
                   !.whitelist = IF v = "safe" /\ ok THEN @ + 1 ELSE @,
                   !.blacklist = IF v = "unsafe" /\ ok THEN @ + 1 ELSE @,
                   !.errors = IF v \in {"safe", "unsafe"} /\ ~ok THEN @ + 1 ELSE @]

\* A loop that gives up the batch at the first exception.
RefreshResumeAborting(t, v, ok) ==
    /\ task[t].kind = "refresh"
    /\ task[t].pc = "await"
    /\ LET u      == Head(task[t].entries)
           failed == v = "raise" \/ (v \in {"safe", "unsafe"} /\ ~ok)
           after  == Tail(task[t].entries)
           rest   == DropBare(after)
       IN  /\ whitelist' = IF v = "safe" /\ ok THEN SaveWhitelistEntry(u) ELSE whitelist
           /\ blacklist' = IF v = "unsafe" /\ ok THEN SaveBlacklistEntry(u) ELSE blacklist
           /\ task' = [task EXCEPT
                 ![t].entries = IF failed THEN after ELSE rest,
                 ![t].res = v,
                 ![t].stored = ~failed \/ v = "raise",
                 ![t].summary = IF failed THEN CountEntry(@, v, ok)
                                ELSE [CountEntry(@, v, ok) EXCEPT
                                        !.errors = @ + LeadingBare(after)],
                 ![t].pc = IF failed \/ rest = <<>> THEN "done" ELSE "await"]
    /\ UNCHANGED OutsideCache

\* _refresh_cache_entries, from the result of one entry's analysis to the
\* next await (or to its return after the last entry).
RefreshResume(t, v, ok) ==
    /\ task[t].kind = "refresh"
    /\ task[t].pc = "await"
    /\ LET u     == Head(task[t].entries)
           after == Tail(task[t].entries)
           rest  == DropBare(after)
       IN  /\ whitelist' = IF v = "safe" /\ ok THEN SaveWhitelistEntry(u) ELSE whitelist
           /\ blacklist' = IF v = "unsafe" /\ ok THEN SaveBlacklistEntry(u) ELSE blacklist
           /\ task' = [task EXCEPT
                 ![t].entries = rest,
                 ![t].res = v,
                 ![t].stored = (ok \/ v \notin {"safe", "unsafe"}),
                 ![t].summary = [CountEntry(@, v, ok) EXCEPT
                                   !.errors = @ + LeadingBare(after)],
                 ![t].pc = IF rest = <<>> THEN "done" ELSE "await"]
    /\ UNCHANGED OutsideCache

\* The handler has returned its redirect; the slot serves the next request.
HandlerReturn(t) ==
    /\ task[t].pc = "done"
    /\ task' = [task EXCEPT ![t] = IdleTask]
    /\ UNCHANGED <<whitelist, blacklist, OutsideCache>>

(***************************************************************************)
(* Part 2.  The URL risk model (app/ml_url_model.py).                      *)
(*                                                                         *)
(* A Python float is [k, v]: k = "fin" with v the value in thousandths,    *)
(* or one of the IEEE specials "nan", "inf", "ninf" (v = 0).               *)
(***************************************************************************)
Scale == 10 * 100

Fin(n) == [k |-> "fin", v |-> n]
NaN  == [k |-> "nan", v |-> 0]
PInf == [k |-> "inf", v |-> 0]
NInf == [k |-> "ninf", v |-> 0]

Abs(n) == IF n < 0 THEN -n ELSE n
Sgn(a) ==
    CASE a.k = "inf" -> 1
      [] a.k = "ninf" -> -1
      [] a.k = "fin" -> (IF a.v > 0 THEN 1 ELSE IF a.v < 0 THEN -1 ELSE 0)
      [] OTHER -> 0

\* a + b
FAdd(a, b) ==
    CASE a.k = "nan" \/ b.k = "nan" -> NaN
      [] a.k = "fin" /\ b.k = "fin" -> Fin(a.v + b.v)
      [] a.k = "fin" -> b
      [] b.k = "fin" -> a
      [] a.k = b.k -> a
      [] OTHER -> NaN

\* a * b
FMul(a, b) ==
    CASE a.k = "nan" \/ b.k = "nan" -> NaN
      [] a.k = "fin" /\ b.k = "fin" ->
            Fin(Sgn(a) * Sgn(b) * ((Abs(a.v) * Abs(b.v)) \div Scale))
      [] Sgn(a) * Sgn(b) = 0 -> NaN
      [] Sgn(a) * Sgn(b) > 0 -> PInf
      [] OTHER -> NInf

\* a / n for a number n > 0
FDivBy(a, n) ==
    IF a.k = "fin" THEN Fin(Sgn(a) * (Abs(a.v) \div n)) ELSE a

\* -a
FNeg(a) ==
    CASE a.k = "fin" -> Fin(-a.v)
      [] a.k = "inf" -> NInf
      [] a.k = "ninf" -> PInf
      [] OTHER -> NaN

\* a >= b and a < b: False whenever either side is NaN
FGe(a, b) ==
    CASE a.k = "nan" \/ b.k = "nan" -> FALSE
      [] a.k = "fin" /\ b.k = "fin" -> a.v >= b.v
      [] a.k = "inf" -> TRUE
      [] b.k = "ninf" -> TRUE
      [] OTHER -> FALSE

FLt(a, b) ==
    CASE a.k = "nan" \/ b.k = "nan" -> FALSE
      [] a.k = "fin" /\ b.k = "fin" -> a.v < b.v
      [] a.k = b.k -> FALSE
      [] a.k = "ninf" -> TRUE
      [] b.k = "inf" -> TRUE
      [] OTHER -> FALSE

\* bool(a): a float is falsy only when it is zero
FTruthy(a) == ~(a.k = "fin" /\ a.v = 0)

--------------------------------------------------------------------------
\* math.exp.  ExpKnots[i] is e^(ExpLow + (i - 1) / 4) in thousandths, for the
\* exponents ExpLow..ExpHigh; between two knots the value is interpolated,
\* below ExpLow it is under a thousandth, above ExpHigh it is held at the
\* last knot (its reciprocal is under a thousandth).  Above ExpOverflowAt
\* (the logarithm of the largest double, in thousandths) math.exp raises
\* OverflowError.
ExpKnots ==
    <<
      1, 1, 2, 2, 2, 3, 4, 5, 7, 9, 11, 14, 18, 24, 30, 39, 50, 64, 82,
      105, 135, 174, 223, 287, 368, 472, 607, 779, 1000, 1284, 1649,
      2117, 2718, 3490, 4482, 5755, 7389, 9488, 12182, 15643, 20086,
      25790, 33115, 42521, 54598, 70105, 90017, 115584, 148413, 190566,
      244692, 314191, 403429, 518013, 665142, 854059, 1096633, 1408105,
      1808042, 2321572, 2980958, 3827626, 4914769, 6310688, 8103084,
      10404566, 13359727, 17154229, 22026466, 28282542, 36315503, 46630028,
      59874142, 76879920, 98715771, 126753559, 162754791, 208981289,
      268337287, 344551896, 442413392, 568070040, 729416370, 936589158,
      1202604284
    >>
ExpLow  == -7
ExpHigh == 14
ExpStep == 250
ExpOverflowAt == 709782

ExpFin(y) ==
    IF y < ExpLow * Scale THEN 0
    ELSE IF y >= ExpHigh * Scale THEN ExpKnots[Len(ExpKnots)]
    ELSE LET off == y - ExpLow * Scale
             i   == off \div ExpStep
             f   == off % ExpStep
             lo  == ExpKnots[i + 1]
             d   == ExpKnots[i + 2] - lo
         IN  lo + (d \div ExpStep) * f + ((d % ExpStep) * f) \div ExpStep

\* [raised |-> OverflowError?, val |-> the result]
MathExp(y) ==
    CASE y.k = "nan" -> [raised |-> FALSE, val |-> NaN]
      [] y.k = "inf" -> [raised |-> FALSE, val |-> PInf]
      [] y.k = "ninf" -> [raised |-> FALSE, val |-> Fin(0)]
      [] OTHER -> IF y.v > ExpOverflowAt
                  THEN [raised |-> TRUE, val |-> NaN]
                  ELSE [raised |-> FALSE, val |-> Fin(ExpFin(y.v))]

\* 1.0 / d for d = 1.0 + exp(..) (never zero)
FRecip(d) ==
    CASE d.k = "nan" -> NaN
      [] d.k = "fin" -> Fin((Scale * Scale) \div d.v)
      [] OTHER -> Fin(0)

\* UrlRiskMlModel._sigmoid
Sigmoid(x) ==
    LET e == MathExp(FNeg(x))
    IN  IF e.raised
        THEN (IF FLt(x, Fin(0)) THEN Fin(0) ELSE Fin(Scale))
        ELSE FRecip(FAdd(Fin(Scale), e.val))

--------------------------------------------------------------------------
\* Python values read from JSON or passed in a dict: a number, a string,
\* null/None, or no such key.
PyNum(f)  == [t |-> "num", f |-> f, s |-> <<>>]
PyStr(s)  == [t |-> "str", f |-> Fin(0), s |-> s]
PyNull    == [t |-> "null", f |-> Fin(0), s |-> <<>>]
PyAbsent  == [t |-> "absent", f |-> Fin(0), s |-> <<>>]

Digits == {"0", "1", "2", "3", "4", "5", "6", "7", "8", "9"}
DigitVal(c) ==
    CASE c = "0" -> 0 [] c = "1" -> 1 [] c = "2" -> 2 [] c = "3" -> 3
      [] c = "4" -> 4 [] c = "5" -> 5 [] c = "6" -> 6 [] c = "7" -> 7
      [] c = "8" -> 8 [] c = "9" -> 9

AllDigits(s) == s # <<>> /\ \A i \in 1..Len(s) : s[i] \in Digits

RECURSIVE DigitsValue(_)
DigitsValue(s) ==
    IF s = <<>> THEN 0
    ELSE DigitsValue(SubSeq(s, 1, Len(s) - 1)) * 10 + DigitVal(s[Len(s)])

\* The index of the first "." of s, or 0.
DotAt(s) ==
    IF \E i \in 1..Len(s) : s[i] = "."
    THEN CHOOSE i \in 1..Len(s) : s[i] = "." /\ \A j \in 1..(i - 1) : s[j] # "."
    ELSE 0

\* float(s) for a string: surrounding blanks and case are ignored; "nan",
\* "inf" and "infinity" (signed) are the specials; digits with an optional
\* fraction are a number; every other text here raises ValueError.
ParseFloat(s) ==
    LET t    == Lower(Strip(s))
        neg  == t # <<>> /\ t[1] = "-"
        body == IF t # <<>> /\ t[1] \in {"-", "+"} THEN Tail(t) ELSE t
        dot  == DotAt(body)
        ip   == IF dot = 0 THEN body ELSE SubSeq(body, 1, dot - 1)
        fp   == IF dot = 0 THEN <<>> ELSE SubSeq(body, dot + 1, Len(body))
        fp3  == SubSeq(fp \o <<"0", "0", "0">>, 1, 3)
        mag  == DigitsValue(ip) * Scale + DigitsValue(fp3)
    IN  CASE body = <<"n","a","n">> -> [ok |-> TRUE, val |-> NaN]
          [] body \in {<<"i","n","f">>, <<"i","n","f","i","n","i","t","y">>} ->
                [ok |-> TRUE, val |-> IF neg THEN NInf ELSE PInf]
          [] AllDigits(ip) /\ (fp = <<>> \/ AllDigits(fp)) ->
                [ok |-> TRUE, val |-> Fin(IF neg THEN -mag ELSE mag)]
          [] OTHER -> [ok |-> FALSE, val |-> NaN]

\* float(x): [ok |-> no exception, val |-> the float]
PyFloat(x) ==
    CASE x.t = "num" -> [ok |-> TRUE, val |-> x.f]
      [] x.t = "str" -> ParseFloat(x.s)
      [] OTHER -> [ok |-> FALSE, val |-> NaN]

\* bool(x)
PyTruthy(x) ==
    CASE x.t = "num" -> FTruthy(x.f)
      [] x.t = "str" -> x.s # <<>>
      [] OTHER -> FALSE

--------------------------------------------------------------------------
\* FEATURE_NAMES
FEATURE_NAMES ==
    <<"url_len", "domain_len", "digit_count", "subdomain_depth",
      "susp_kw_count", "external_flag", "heur_score">>
FeatureSet == {FEATURE_NAMES[i] : i \in 1..Len(FEATURE_NAMES)}

\* A weights dict: for each feature name, whether the dict has the key and
\* the value under it.
Has(w)  == [present |-> TRUE, w |-> w]
NoKey   == [present |-> FALSE, w |-> Fin(0)]
WeightMap(named) ==
    [f \in FeatureSet |-> IF f \in DOMAIN named THEN Has(named[f]) ELSE NoKey]

\* Default weights that give the digits of the domain no weight.
DefaultWeightsNoDigits ==
    WeightMap([url_len |-> Fin(15), domain_len |-> Fin(0),
               digit_count |-> Fin(0), subdomain_depth |-> Fin(300),
               susp_kw_count |-> Fin(600), external_flag |-> Fin(1200),
               heur_score |-> Fin(800)])

\* UrlRiskMlModel._DEFAULT_WEIGHTS, _DEFAULT_BIAS, _THRESHOLD_*
DefaultWeights ==
    WeightMap([url_len |-> Fin(15), domain_len |-> Fin(0),
               digit_count |-> Fin(400), subdomain_depth |-> Fin(300),
               susp_kw_count |-> Fin(600), external_flag |-> Fin(1200),
               heur_score |-> Fin(800)])
DefaultBias == Fin(-2000)
ThresholdSuspicious == Fin(500)
ThresholdMalicious == Fin(800)

\* The model as UrlRiskMlModel.__init__ sets it before _load_from_disk.
DefaultModel ==
    [weights |-> DefaultWeights, bias |-> DefaultBias,
     ts |-> ThresholdSuspicious, tm |-> ThresholdMalicious, loaded |-> FALSE]

\* The file at URL_ML_MODEL_PATH: absent; not JSON; JSON that is no object;
\* or an object, whose "weights" is absent, a mapping or something else, and
\* whose "bias" and thresholds are absent or any JSON value.
NoFile      == [kind |-> "missing", wkind |-> "absent", weights |-> DefaultWeights,
                bias |-> PyAbsent, ts |-> PyAbsent, tm |-> PyAbsent]
BadJsonFile == [NoFile EXCEPT !.kind = "invalid_json"]
ListFile    == [NoFile EXCEPT !.kind = "not_object"]

FileWeights ==
    { [wkind |-> "absent", weights |-> DefaultWeights],
      [wkind |-> "not_map", weights |-> DefaultWeights],
      [wkind |-> "map", weights |-> WeightMap([digit_count |-> Fin(1000)])],
      [wkind |-> "map",
       weights |-> WeightMap([url_len |-> Fin(0), domain_len |-> Fin(0),
                              digit_count |-> Fin(1000), subdomain_depth |-> Fin(0),
                              susp_kw_count |-> Fin(0), external_flag |-> Fin(0),
                              heur_score |-> Fin(0)])],
      [wkind |-> "map",
       weights |-> WeightMap([digit_count |-> Fin(-400000),
                              susp_kw_count |-> Fin(400000)])],
      [wkind |-> "map",
       weights |-> WeightMap([digit_count |-> NaN, heur_score |-> PInf])] }

FileBias ==
    { PyAbsent, PyNum(Fin(-1000)), PyNum(NaN), PyStr(<<"-","1",".","5">>),
      PyStr(<<"a","b","c">>) }
FileThresholdS ==
    { PyAbsent, PyNum(Fin(900)), PyStr(<<"a","b","c">>) }
FileThresholdM ==
    { PyAbsent, PyNum(Fin(700)), PyNum(NaN), PyNull }

ModelFiles ==
    {NoFile, BadJsonFile, ListFile} \cup
    { [kind |-> "object", wkind |-> w.wkind, weights |-> w.weights,
       bias |-> b, ts |-> s, tm |-> m] :
         w \in FileWeights, b \in FileBias, s \in FileThresholdS, m \in FileThresholdM }

\* data.get(key, default) followed by float(): the default when the key is
\* absent, else the conversion of the value.
GetFloat(x, default) ==
    IF x.t = "absent" THEN [ok |-> TRUE, val |-> default] ELSE PyFloat(x)

\* A loader that reads data["bias"], data["threshold_*"]: an absent key
\* raises KeyError and ends the load.
LoadFromDiskIndexing(m, file) ==
    IF file.kind # "object" \/ file.wkind \in {"not_map", "absent"} THEN m
    ELSE
      LET m1 == [m EXCEPT !.weights = file.weights]
          b  == PyFloat(file.bias)
          m2 == [m1 EXCEPT !.bias = b.val]
          s  == PyFloat(file.ts)
          m3 == [m2 EXCEPT !.ts = s.val]
          t  == PyFloat(file.tm)
          m4 == [m3 EXCEPT !.tm = t.val, !.loaded = TRUE]
      IN  IF ~b.ok THEN m1
          ELSE IF ~s.ok THEN m2
          ELSE IF ~t.ok THEN m3
          ELSE m4

\* A loader that updates the built-in weights with the file's, so that a
\* feature the file does not name keeps its built-in weight.
LoadFromDiskMerging(m, file) ==
    IF file.kind # "object" THEN m
    ELSE IF file.wkind = "not_map" THEN m
    ELSE
      LET m1 == [m EXCEPT !.weights =
                    [f \in FeatureSet |->
                        IF file.weights[f].present THEN file.weights[f]
                        ELSE DefaultWeights[f]]]
          b  == GetFloat(file.bias, DefaultBias)
          m2 == [m1 EXCEPT !.bias = b.val]
          s  == GetFloat(file.ts, ThresholdSuspicious)
          m3 == [m2 EXCEPT !.ts = s.val]
          t  == GetFloat(file.tm, ThresholdMalicious)
          m4 == [m3 EXCEPT !.tm = t.val, !.loaded = TRUE]
      IN  IF ~b.ok THEN m1
          ELSE IF ~s.ok THEN m2
          ELSE IF ~t.ok THEN m3
          ELSE m4

\* UrlRiskMlModel._load_from_disk: the assignments are made one after the
\* other inside one try; the first exception ends them.
LoadFromDisk(m, file) ==
    IF file.kind # "object" THEN m
    ELSE IF file.wkind = "not_map" THEN m
    ELSE
      LET m1 == [m EXCEPT !.weights = file.weights]
          b  == GetFloat(file.bias, DefaultBias)
          m2 == [m1 EXCEPT !.bias = b.val]
          s  == GetFloat(file.ts, ThresholdSuspicious)
          m3 == [m2 EXCEPT !.ts = s.val]
          t  == GetFloat(file.tm, ThresholdMalicious)
          m4 == [m3 EXCEPT !.tm = t.val, !.loaded = TRUE]
      IN  IF ~b.ok THEN m1
          ELSE IF ~s.ok THEN m2
          ELSE IF ~t.ok THEN m3
          ELSE m4

--------------------------------------------------------------------------
\* The arguments of evaluate.
SuspiciousKeywords ==
    { <<"l","o","g","i","n">>, <<"s","i","g","n","i","n">>,
      <<"v","e","r","i","f","y">>, <<"s","e","c","u","r","e">>,
      <<"a","c","c","o","u","n","t">>, <<"u","p","d","a","t","e">>,
      <<"b","i","l","l","i","n","g">>, <<"s","u","p","p","o","r","t">>,
      <<"b","a","n","k">>, <<"w","a","l","l","e","t">>,
      <<"c","r","y","p","t","o">> }

UrlInputs ==
    { [url |-> <<"h","t","t","p","s",":","/","/","e","x","4","m","p","l","3",".","c","o","m","/">>,
       domain |-> <<"e","x","4","m","p","l","3",".","c","o","m">>],
      [url |-> <<"h","t","t","p","s",":","/","/","e","x","a","m","p","l","e",".","c","o","m","/">>,
       domain |-> <<"e","x","a","m","p","l","e",".","c","o","m">>],
      [url |-> <<"h","t","t","p","s",":","/","/","e","x","a","m","p","l","e",".","c","o","m","/","l","o","g","i","n">>,
       domain |-> <<"e","x","a","m","p","l","e",".","c","o","m">>],
      [url |-> <<"h","t","t","p",":","/","/","p","a","y",".","b","a","n","k",".","i","o","/","S","e","c","u","r","e","-","L","O","G","I","N">>,
       domain |-> <<"p","a","y",".","b","a","n","k",".","i","o">>],
      [url |-> <<>>, domain |-> <<>>] }

\* external_result: None, or a dict with "safe" (True / False / None) and
\* "threat_type" (a text, empty when absent).
ExternalInputs ==
    { [isNone |-> TRUE,  safe |-> "none",  threat |-> <<>>],
      [isNone |-> FALSE, safe |-> "false", threat |-> <<>>],
      [isNone |-> FALSE, safe |-> "none",  threat |-> <<"m","a","l","w","a","r","e">>] }

\* heuristic_result: None, or a dict whose "riskScore" is the value given.
HeuristicInputs ==
    { [isNone |-> TRUE,  riskScore |-> PyAbsent],
      [isNone |-> FALSE, riskScore |-> PyNum(Fin(50000))],
      [isNone |-> FALSE, riskScore |-> PyNum(Fin(0))],
      [isNone |-> FALSE, riskScore |-> PyStr(<<"a","b","c">>)],
      [isNone |-> FALSE, riskScore |-> PyNum(NaN)],
      [isNone |-> FALSE, riskScore |-> PyStr(<<"i","n","f">>)] }

CountIn(s, S) == Cardinality({i \in 1..Len(s) : s[i] \in S})

\* UrlRiskMlModel._extract_features
ExtractFeatures(url, domain, ext, heur) ==
    LET full == Lower(url)
        hs   == IF ~heur.isNone /\ PyTruthy(heur.riskScore)
                THEN (IF PyFloat(heur.riskScore).ok
                      THEN PyFloat(heur.riskScore).val ELSE Fin(0))
                ELSE Fin(0)
    IN  [url_len         |-> Fin(Min(Len(url), 3000) * Scale),
         domain_len      |-> Fin(Min(Len(domain), 255) * Scale),
         digit_count     |-> Fin(CountIn(domain, Digits) * Scale),
         subdomain_depth |-> Fin(CountIn(domain, {"."}) * Scale),
         susp_kw_count   |->
             Fin(Cardinality({kw \in SuspiciousKeywords : Contains(full, kw)}) * Scale),
         external_flag   |->
             IF ~ext.isNone /\ (ext.safe = "false" \/ ext.threat # <<>>)
             THEN Fin(Scale) ELSE Fin(0),
         heur_score      |-> FDivBy(hs, 100)]

\* self._weights.get(name, 0.0)
WeightOf(m, name) ==
    IF m.weights[name].present THEN m.weights[name].w ELSE Fin(0)

\* The values evaluate multiplies the weights by.
ScaledFeatures(feats) ==
    [feats EXCEPT !.url_len = IF FTruthy(@) THEN FDivBy(@, 200) ELSE Fin(0),
                  !.domain_len = FDivBy(@, 100)]

RECURSIVE WeightedSum(_, _, _, _)
WeightedSum(m, x, z, i) ==
    IF i > Len(FEATURE_NAMES) THEN z
    ELSE WeightedSum(m, x, FAdd(z, FMul(WeightOf(m, FEATURE_NAMES[i]), x[FEATURE_NAMES[i]])), i + 1)

\* A thresholding that tests the lower threshold first.
LabelOfSwapped(m, score) ==
    IF FGe(score, m.ts) THEN "suspicious"
    ELSE IF FGe(score, m.tm) THEN "malicious"
    ELSE "safe"

\* The thresholding of evaluate.
LabelOf(m, score) ==
    IF FGe(score, m.tm) THEN "malicious"
    ELSE IF FGe(score, m.ts) THEN "suspicious"
    ELSE "safe"

\* UrlRiskMlModel.evaluate
Evaluate(m, url, domain, ext, heur) ==
    LET feats == ExtractFeatures(url, domain, ext, heur)
        z     == WeightedSum(m, ScaledFeatures(feats), m.bias, 1)
        score == Sigmoid(z)
    IN  [z |-> z, ml_score |-> score, label |-> LabelOf(m, score)]

NoCall ==
    [called |-> FALSE, in |-> [url |-> <<>>, domain |-> <<>>],
     ext |-> [isNone |-> TRUE, safe |-> "none", threat |-> <<>>],
     heur |-> [isNone |-> TRUE, riskScore |-> PyAbsent],
     out |-> [z |-> Fin(0), ml_score |-> Fin(0), label |-> "safe"]]

\* UrlRiskMlModel(): __init__ sets the defaults, then loads the file.
Construct(file) ==
    /\ mlPhase = "boot"
    /\ mlPhase' = "serving"
    /\ mlFile' = file
    /\ mlModel' = LoadFromDisk(DefaultModel, file)
    /\ UNCHANGED <<mlCall, OutsideMl>>

\* An evaluate that learns: it moves the bias to the sum it has just computed.
EvaluateCallAdapting(in, ext, heur) ==
    /\ mlPhase = "serving"
    /\ ~mlCall.called
    /\ mlCall' = [called |-> TRUE, in |-> in, ext |-> ext, heur |-> heur,
                  out |-> Evaluate(mlModel, in.url, in.domain, ext, heur)]
    /\ mlModel' = [mlModel EXCEPT !.bias = mlCall'.out.z]
    /\ UNCHANGED <<mlPhase, mlFile, OutsideMl>>

\* One call of evaluate on the constructed model, up to its return value.
EvaluateCall(in, ext, heur) ==
    /\ mlPhase = "serving"
    /\ ~mlCall.called
    /\ mlCall' = [called |-> TRUE, in |-> in, ext |-> ext, heur |-> heur,
                  out |-> Evaluate(mlModel, in.url, in.domain, ext, heur)]
    /\ UNCHANGED <<mlPhase, mlFile, mlModel, OutsideMl>>

\* The caller has taken the result.
EvaluateReturn ==
    /\ mlCall.called
    /\ mlCall' = NoCall
    /\ UNCHANGED <<mlPhase, mlFile, mlModel, OutsideMl>>

InitMl ==
    /\ mlPhase = "boot"
    /\ mlFile = NoFile
    /\ mlModel = DefaultModel
    /\ mlCall = NoCall

NextMl ==
    \/ \E file \in ModelFiles : Construct(file)
    \/ \E in \in UrlInputs, ext \in ExternalInputs, heur \in HeuristicInputs :
          EvaluateCall(in, ext, heur)
    \/ EvaluateReturn

\* A model that serves the built-in defaults: no file, or one it cannot read.
NextMlDefault ==
    \/ \E file \in {NoFile, BadJsonFile, ListFile} : Construct(file)
    \/ \E in \in UrlInputs, ext \in ExternalInputs, heur \in HeuristicInputs :
          EvaluateCall(in, ext, heur)
    \/ EvaluateReturn

(***************************************************************************)
(* Part 3.  The external signal clients (app/external_apis).               *)
(*                                                                         *)
(* get_ssl_info (app/ssl_info.py) is modelled here too.                    *)
(* apiCall[t] holds the locals of caller t's call, the number of network   *)
(* requests it has issued and what it returned.  A session, once opened    *)
(* by __aenter__, stays open: the model covers a client up to the end of   *)
(* its "async with" block.                                                 *)
(***************************************************************************)

\* What a client call returns: None, an int (domain age) or a dict.
\* The three fields of a get_ssl_info dict; "none" is Python's None.
SslKeys == {"ssl_issuer", "ssl_valid_from", "ssl_valid_to"}
AllNone == [k \in SslKeys |-> "none"]

\* aliased: the returned dict is the very object held by the cache.
ResNone       == [kind |-> "none", age |-> 0, safe |-> "none", details |-> "none",
                  ssl |-> AllNone, aliased |-> FALSE]
ResAge(a)     == [ResNone EXCEPT !.kind = "int", !.age = a]
ResDict(s, d) == [ResNone EXCEPT !.kind = "dict", !.safe = s, !.details = d]
ResSsl(data, aliased) ==
    [ResNone EXCEPT !.kind = "ssl", !.ssl = data, !.aliased = aliased]

\* config.WHOISXML_API_KEY / config.URLSCAN_API_KEY as deployed
KeyAbsent      == PyNull
KeyEmpty       == PyStr(<<>>)
KeyBlank       == PyStr(<<" ", " ">>)
KeyPlaceholder == PyStr(<<"y","o","u","r","_","k","e","y">>)
KeyPlaceUpper  == PyStr(<<" ","Y","O","U","R","_","K","E","Y">>)
KeyReal        == PyStr(<<" ","k","1"," ">>)

ApiConfigs ==
    { [whois |-> KeyAbsent,      urlscan |-> KeyAbsent],
      [whois |-> KeyEmpty,       urlscan |-> KeyBlank],
      [whois |-> KeyPlaceholder, urlscan |-> KeyPlaceholder],
      [whois |-> KeyPlaceUpper,  urlscan |-> KeyPlaceUpper],
      [whois |-> KeyReal,        urlscan |-> KeyEmpty],
      [whois |-> KeyBlank,       urlscan |-> KeyReal],
      [whois |-> KeyReal,        urlscan |-> KeyReal] }

\* (key or "").strip()
KeyOf(x) == Strip(IF PyTruthy(x) THEN x.s ELSE <<>>)

\* An enabled that only asks for a key, placeholder or not.
EnabledKeyOnly(api_key) == api_key # <<>>

\* enabled: bool(self.api_key and "your_" not in self.api_key.lower())
Enabled(api_key) ==
    /\ api_key # <<>>
    /\ ~Contains(Lower(api_key), <<"y","o","u","r","_">>)

\* time.time() advances by half an hour or by twelve hours, MaxTicks times
ShortStep == 1800
ClockUnit == 12 * 3600
ClockSteps == {ShortStep, ClockUnit}
MaxTicks == 2
WHOIS_CACHE_TTL_SEC == 24 * 3600
SSL_CACHE_TTL == 3600

\* The callers whose calls may be in progress together
MaxCallers == 2
Callers == 1..MaxCallers

DomainInputs ==
    { <<>>, <<"a",".","i","o">>, <<" ","A",".","I","O"," ">> }
CacheKeys == { Strip(Lower(d)) : d \in DomainInputs \ {<<>>} }
WhoisAges == {0, 400}

NoEntry        == [has |-> FALSE, known |-> FALSE, age |-> 0, ts |-> 0]
Entry(res, ts) == [has |-> TRUE, known |-> res.kind = "int", age |-> res.age, ts |-> ts]
EntryAge(e)    == IF e.known THEN ResAge(e.age) ELSE ResNone

CheckUrlInputs ==
    { <<>>,
      <<"f","t","p",":","/","/","a",".","i","o">>,
      <<"h","t","t","p",":","/","/">>,
      <<"h","t","t","p","s",":","/","/","A",".","i","o","/","x">>,
      <<"h","t","t","p",":","/","/","a",".","i","o">> }

VtUrlInputs ==
    { <<"h","t","t","p","s",":","/","/","A",".","i","o","/","x">>,
      <<"h","t","t","p",":","/","/","a",".","i","o">> }

HttpPrefix  == <<"h","t","t","p",":","/","/">>
HttpsPrefix == <<"h","t","t","p","s",":","/","/">>

\* A cache entry written at ts is still valid at now.
FreshInclusive(now, ts, ttl) == now - ts <= ttl

\* "now - ts < TTL" of both caches
Fresh(now, ts, ttl) == now - ts < ttl

RECURSIVE UpToDelim(_)
UpToDelim(s) ==
    IF s = <<>> \/ Head(s) \in {"/", "?", "#"} THEN <<>>
    ELSE <<Head(s)>> \o UpToDelim(Tail(s))

\* urlparse(url).netloc of a URL that starts with http:// or https://
Netloc(url) ==
    IF StartsWith(url, HttpsPrefix)
    THEN UpToDelim(SubSeq(url, Len(HttpsPrefix) + 1, Len(url)))
    ELSE UpToDelim(SubSeq(url, Len(HttpPrefix) + 1, Len(url)))

\* config.VIRUSTOTAL_HOURLY_LIMIT
VtHourlyLimit == 2
\* _poll_analysis(max_attempts = 5)
MaxAttempts == 5

\* BaseAPIClient._check_rate_limit(limit): FALSE once the hour's calls are used
CheckRateLimit(used, limit) == used < limit

\* What BaseAPIClient._make_request returns: None or the decoded JSON
VtResponses == {"none", "empty", "queued", "completed"}
HasData(resp) == resp \in {"queued", "completed"}

WhoisOutcomes   == {"status", "timeout", "error", "no_date", "dated"}
UrlscanOutcomes == {"429", "status", "timeout", "error", "clean", "malicious"}

IdleCall ==
    [client |-> "none", pc |-> "idle", arg |-> <<>>, domain |-> <<>>, now |-> 0,
     use_cache |-> TRUE, attempt |-> 0, limited |-> FALSE, requests |-> 0,
     outcome |-> "none", raised |-> FALSE, result |-> ResNone]

\* No client call is in progress.
ApiIdle == \A t \in Callers : apiCall[t].pc = "idle"

Returned(call, res) == [call EXCEPT !.pc = "done", !.result = res]

\* get_ssl_info: its hostname argument, and what the TLS handshake brings
HostInputs ==
    { <<>>, <<" ", " ">>, <<" ","A",".","i","o"," ">>, <<"a",".","i","o">> }
HostKeys == { Lower(Strip(h)) : h \in { x \in HostInputs : Strip(x) # <<>> } }
CertOutcomes ==
    {"no_cert", "ssl_error", "conn_error", "other_error", "cert_full", "cert_bare"}

\* A handshake helper without the last except clause: an error that is
\* neither an SSLError nor an OSError leaves it.
PeerCertUncaught(net) ==
    CASE net = "cert_full" ->
           [isNone |-> FALSE, raises |-> FALSE,
            data |-> [ssl_issuer |-> "org", ssl_valid_from |-> "iso",
                      ssl_valid_to |-> "iso"]]
      [] net = "cert_bare" -> [isNone |-> FALSE, raises |-> FALSE, data |-> AllNone]
      [] net = "other_error" -> [isNone |-> TRUE, raises |-> TRUE, data |-> AllNone]
      [] OTHER -> [isNone |-> TRUE, raises |-> FALSE, data |-> AllNone]

\* _get_peer_cert_sync: None, or the dict built from the peer certificate;
\* every exception of the handshake is caught there.
PeerCert(net) ==
    CASE net = "cert_full" ->
           [isNone |-> FALSE, raises |-> FALSE,
            data |-> [ssl_issuer |-> "org", ssl_valid_from |-> "iso",
                      ssl_valid_to |-> "iso"]]
      [] net = "cert_bare" -> [isNone |-> FALSE, raises |-> FALSE, data |-> AllNone]
      [] OTHER -> [isNone |-> TRUE, raises |-> FALSE, data |-> AllNone]

NoSslEntry         == [has |-> FALSE, data |-> AllNone, ts |-> 0]
SslEntry(data, ts) == [has |-> TRUE, data |-> data, ts |-> ts]

\* WhoisXMLClient(), URLScanClient(): __init__ reads the configured keys.
ConstructClients(cfg) ==
    /\ apiPhase = "boot"
    /\ apiPhase' = "ready"
    /\ apiConfig' = cfg
    /\ whois' = [api_key |-> KeyOf(cfg.whois), session |-> FALSE]
    /\ urlscan' = [api_key |-> KeyOf(cfg.urlscan), session |-> FALSE]
    /\ UNCHANGED <<vtUsed, whoisCache, sslCache, clock, ticks, apiCall, OutsideApi>>

\* WhoisXMLClient.__aenter__
WhoisEnter ==
    /\ apiPhase = "ready" /\ ApiIdle /\ ~whois.session
    /\ whois' = [whois EXCEPT !.session = TRUE]
    /\ UNCHANGED <<apiPhase, apiConfig, urlscan, vtUsed, whoisCache, sslCache,
                   clock, ticks, apiCall, OutsideApi>>

\* URLScanClient.__aenter__
UrlscanEnter ==
    /\ apiPhase = "ready" /\ ApiIdle /\ ~urlscan.session
    /\ urlscan' = [urlscan EXCEPT !.session = TRUE]
    /\ UNCHANGED <<apiPhase, apiConfig, whois, vtUsed, whoisCache, sslCache,
                   clock, ticks, apiCall, OutsideApi>>

\* Time passes; after an hour or more the rate limiter's hour is over.
Tick(d) ==
    /\ ticks < MaxTicks
    /\ ticks' = ticks + 1
    /\ clock' = clock + d
    /\ vtUsed' = IF d >= 3600 THEN 0 ELSE vtUsed
    /\ UNCHANGED <<apiPhase, apiConfig, whois, urlscan, whoisCache, sslCache,
                   apiCall, OutsideApi>>

\* get_domain_age_days up to its HTTP request
WhoisBegin(t, d) ==
    /\ apiPhase = "ready" /\ apiCall[t].pc = "idle"
    /\ LET call0  == [IdleCall EXCEPT !.client = "whois", !.arg = d]
           dom    == Strip(Lower(d))
           now    == clock
           call1  == [call0 EXCEPT !.domain = dom, !.now = now]
       IN  apiCall' = [apiCall EXCEPT ![t] =
             IF d = <<>> \/ ~Enabled(whois.api_key) THEN Returned(call0, ResNone)
             ELSE IF /\ whoisCache[dom].has
                     /\ Fresh(now, whoisCache[dom].ts, WHOIS_CACHE_TTL_SEC)
                  THEN Returned(call1, EntryAge(whoisCache[dom]))
             ELSE IF ~whois.session THEN Returned(call1, ResNone)
             ELSE [call1 EXCEPT !.pc = "whois_http", !.requests = 1]]
    /\ UNCHANGED <<apiPhase, apiConfig, whois, urlscan, vtUsed, whoisCache,
                   sslCache, clock, ticks, OutsideApi>>

\* A response handler that caches None after a timeout as after any other
\* failure.
WhoisResumeCachingTimeout(t, o, age) ==
    /\ apiCall[t].pc = "whois_http"
    /\ LET res == IF o = "dated" THEN ResAge(age) ELSE ResNone
       IN  /\ apiCall' = [apiCall EXCEPT ![t] =
                            Returned([apiCall[t] EXCEPT !.outcome = o], res)]
           /\ whoisCache' = [whoisCache EXCEPT ![apiCall[t].domain] =
                                                  Entry(res, apiCall[t].now)]
    /\ UNCHANGED <<apiPhase, apiConfig, whois, urlscan, vtUsed, sslCache, clock,
                   ticks, OutsideApi>>

\* A response handler that does not replace an entry stamped later than the
\* start of its own lookup.
WhoisResumeKeepNewest(t, o, age) ==
    /\ apiCall[t].pc = "whois_http"
    /\ LET res == IF o = "dated" THEN ResAge(age) ELSE ResNone
           e   == whoisCache[apiCall[t].domain]
       IN  /\ apiCall' = [apiCall EXCEPT ![t] =
                            Returned([apiCall[t] EXCEPT !.outcome = o], res)]
           /\ whoisCache' =
                IF o = "timeout" \/ (e.has /\ e.ts > apiCall[t].now) THEN whoisCache
                ELSE [whoisCache EXCEPT ![apiCall[t].domain] =
                                           Entry(res, apiCall[t].now)]
    /\ UNCHANGED <<apiPhase, apiConfig, whois, urlscan, vtUsed, sslCache, clock,
                   ticks, OutsideApi>>

\* get_domain_age_days from the response (or the exception) on
WhoisResume(t, o, age) ==
    /\ apiCall[t].pc = "whois_http"
    /\ LET res == IF o = "dated" THEN ResAge(age) ELSE ResNone
       IN  /\ apiCall' = [apiCall EXCEPT ![t] =
                            Returned([apiCall[t] EXCEPT !.outcome = o], res)]
           /\ whoisCache' =
                IF o = "timeout" THEN whoisCache
                ELSE [whoisCache EXCEPT ![apiCall[t].domain] =
                                           Entry(res, apiCall[t].now)]
    /\ UNCHANGED <<apiPhase, apiConfig, whois, urlscan, vtUsed, sslCache, clock,
                   ticks, OutsideApi>>

\* get_ssl_info up to the handshake it hands to a thread
SslBegin(t, hostname, use_cache) ==
    /\ apiCall[t].pc = "idle"
    /\ LET call0 == [IdleCall EXCEPT !.client = "ssl", !.arg = hostname,
                                     !.use_cache = use_cache]
           host  == Lower(Strip(hostname))
           now   == clock
           call1 == [call0 EXCEPT !.domain = host, !.now = now]
       IN  apiCall' = [apiCall EXCEPT ![t] =
             IF hostname = <<>> \/ Strip(hostname) = <<>>
             THEN Returned(call0, ResSsl(AllNone, FALSE))
             ELSE IF /\ use_cache
                     /\ sslCache[host].has
                     /\ Fresh(now, sslCache[host].ts, SSL_CACHE_TTL)
                  THEN Returned(call1, ResSsl(sslCache[host].data, FALSE))
             ELSE [call1 EXCEPT !.pc = "ssl_wait", !.requests = 1]]
    /\ UNCHANGED <<apiPhase, apiConfig, whois, urlscan, vtUsed, whoisCache,
                   sslCache, clock, ticks, OutsideApi>>

\* get_ssl_info from the handshake's result on; an exception of the awaited
\* helper would leave get_ssl_info before the cache is written.  The entry
\* is a new object: a dict another caller still holds is no longer the one
\* in the cache.
SslResume(t, net) ==
    /\ apiCall[t].pc = "ssl_wait"
    /\ LET cert == PeerCert(net)
           call == [apiCall[t] EXCEPT !.outcome = net]
       IN  IF cert.raises
           THEN /\ sslCache' = sslCache
                /\ apiCall' = [apiCall EXCEPT ![t] =
                                  [call EXCEPT !.pc = "done", !.raised = TRUE]]
           ELSE /\ sslCache' = [sslCache EXCEPT ![call.domain] = SslEntry(cert.data, call.now)]
                /\ apiCall' = [u \in Callers |->
                     IF u = t
                     THEN (IF ~cert.isNone THEN Returned(call, ResSsl(cert.data, FALSE))
                           ELSE Returned(call, ResSsl(AllNone, TRUE)))
                     ELSE IF apiCall[u].client = "ssl" /\ apiCall[u].domain = call.domain
                          THEN [apiCall[u] EXCEPT !.result.aliased = FALSE]
                          ELSE apiCall[u]]
    /\ UNCHANGED <<apiPhase, apiConfig, whois, urlscan, vtUsed, whoisCache,
                   clock, ticks, OutsideApi>>

\* The caller of get_ssl_info writes into the dict it was given
\* (res["ssl_issuer"] = ...): the dict of the cache changes with it when the
\* two are one object.
SslMutate(t) ==
    /\ apiCall[t].pc = "done" /\ apiCall[t].client = "ssl"
    /\ ~apiCall[t].raised
    /\ apiCall[t].result.ssl.ssl_issuer # "edited"
    /\ apiCall' = [apiCall EXCEPT ![t].result.ssl.ssl_issuer = "edited"]
    /\ sslCache' = IF apiCall[t].result.aliased
                   THEN [sslCache EXCEPT ![apiCall[t].domain].data.ssl_issuer = "edited"]
                   ELSE sslCache
    /\ UNCHANGED <<apiPhase, apiConfig, whois, urlscan, vtUsed, whoisCache,
                   clock, ticks, OutsideApi>>

\* URLScanClient.check_url up to its HTTP request
UrlscanBegin(t, url) ==
    /\ apiPhase = "ready" /\ apiCall[t].pc = "idle"
    /\ LET call0  == [IdleCall EXCEPT !.client = "urlscan", !.arg = url]
           domain == Lower(Netloc(url))
       IN  apiCall' = [apiCall EXCEPT ![t] =
             IF url = <<>> \/ ~(StartsWith(url, HttpPrefix) \/ StartsWith(url, HttpsPrefix))
             THEN Returned(call0, ResNone)
             ELSE IF domain = <<>> THEN Returned(call0, ResNone)
             ELSE IF ~urlscan.session
                  THEN Returned([call0 EXCEPT !.domain = domain], ResNone)
             ELSE [call0 EXCEPT !.domain = domain, !.pc = "urlscan_http",
                                !.requests = 1]]
    /\ UNCHANGED <<apiPhase, apiConfig, whois, urlscan, vtUsed, whoisCache,
                   sslCache, clock, ticks, OutsideApi>>

\* URLScanClient.check_url from the response (or the exception) on
UrlscanResume(t, o) ==
    /\ apiCall[t].pc = "urlscan_http"
    /\ apiCall' = [apiCall EXCEPT ![t] =
          Returned([apiCall[t] EXCEPT !.outcome = o],
            CASE o = "429"       -> ResDict("none", "Rate limited")
              [] o = "timeout"   -> ResDict("none", "Timeout")
              [] o = "clean"     -> ResDict("true", "no malicious scans found")
              [] o = "malicious" -> ResDict("false", "malicious or suspicious scan result")
              [] OTHER           -> ResNone)]
    /\ UNCHANGED <<apiPhase, apiConfig, whois, urlscan, vtUsed, whoisCache,
                   sslCache, clock, ticks, OutsideApi>>

\* VirusTotalClient.check_url up to the lookup of the URL
VtBegin(t, url) ==
    /\ apiPhase = "ready" /\ apiCall[t].pc = "idle"
    /\ LET call0 == [IdleCall EXCEPT !.client = "vt", !.arg = url]
       IN  IF ~CheckRateLimit(vtUsed, VtHourlyLimit)
           THEN /\ apiCall' = [apiCall EXCEPT ![t] =
                                 Returned([call0 EXCEPT !.limited = TRUE], ResNone)]
                /\ vtUsed' = vtUsed
           ELSE /\ apiCall' = [apiCall EXCEPT ![t] =
                                 [call0 EXCEPT !.pc = "vt_get", !.requests = 1]]
                /\ vtUsed' = vtUsed + 1
    /\ UNCHANGED <<apiPhase, apiConfig, whois, urlscan, whoisCache, sslCache,
                   clock, ticks, OutsideApi>>

\* check_url after GET /urls/{id}
VtGetResume(t, resp) ==
    /\ apiCall[t].pc = "vt_get"
    /\ apiCall' = [apiCall EXCEPT ![t] =
         IF HasData(resp) THEN Returned([@ EXCEPT !.outcome = resp], ResDict("none", resp))
         ELSE [@ EXCEPT !.pc = "vt_post", !.requests = @ + 1]]
    /\ UNCHANGED <<apiPhase, apiConfig, whois, urlscan, vtUsed, whoisCache,
                   sslCache, clock, ticks, OutsideApi>>

\* check_url after POST /urls: on to _poll_analysis and its first request
VtPostResume(t, resp) ==
    /\ apiCall[t].pc = "vt_post"
    /\ apiCall' = [apiCall EXCEPT ![t] =
         IF HasData(resp)
         THEN [@ EXCEPT !.pc = "vt_poll", !.attempt = 0, !.requests = @ + 1]
         ELSE Returned([@ EXCEPT !.outcome = resp], ResNone)]
    /\ UNCHANGED <<apiPhase, apiConfig, whois, urlscan, vtUsed, whoisCache,
                   sslCache, clock, ticks, OutsideApi>>

\* _poll_analysis: one turn of its loop, from the response on
VtPollResume(t, resp) ==
    /\ apiCall[t].pc = "vt_poll"
    /\ apiCall' = [apiCall EXCEPT ![t] =
         IF resp = "none"
         THEN [@ EXCEPT !.pc = "done", !.outcome = resp,
                        !.raised = TRUE]  \* None.get(...)
         ELSE IF resp = "completed"
              THEN Returned([@ EXCEPT !.outcome = resp], ResDict("none", resp))
         ELSE IF apiCall[t].attempt + 1 < MaxAttempts
              THEN [@ EXCEPT !.attempt = @ + 1, !.requests = @ + 1]
         ELSE Returned([@ EXCEPT !.outcome = resp], ResDict("none", resp))]
    /\ UNCHANGED <<apiPhase, apiConfig, whois, urlscan, vtUsed, whoisCache,
                   sslCache, clock, ticks, OutsideApi>>

\* The caller has taken the result (or the exception).
ApiReturn(t) ==
    /\ apiCall[t].pc = "done"
    /\ apiCall' = [apiCall EXCEPT ![t] = IdleCall]
    /\ UNCHANGED <<apiPhase, apiConfig, whois, urlscan, vtUsed, whoisCache,
                   sslCache, clock, ticks, OutsideApi>>

InitApi ==
    /\ apiPhase = "boot"
    /\ apiConfig = [whois |-> KeyAbsent, urlscan |-> KeyAbsent]
    /\ whois = [api_key |-> <<>>, session |-> FALSE]
    /\ urlscan = [api_key |-> <<>>, session |-> FALSE]
    /\ vtUsed = 0
    /\ whoisCache = [k \in CacheKeys |-> NoEntry]
    /\ sslCache = [k \in HostKeys |-> NoSslEntry]
    /\ clock = 0
    /\ ticks = 0
    /\ apiCall = [t \in Callers |-> IdleCall]

\* The clients, one call at a time.
NextApi ==
    \/ \E cfg \in ApiConfigs : ConstructClients(cfg)
    \/ WhoisEnter
    \/ UrlscanEnter
    \/ \E d \in ClockSteps : Tick(d)
    \/ \E t \in Callers, d \in DomainInputs : ApiIdle /\ WhoisBegin(t, d)
    \/ \E t \in Callers, o \in WhoisOutcomes, age \in WhoisAges : WhoisResume(t, o, age)
    \/ \E t \in Callers, url \in CheckUrlInputs : ApiIdle /\ UrlscanBegin(t, url)
    \/ \E t \in Callers, o \in UrlscanOutcomes : UrlscanResume(t, o)
    \/ \E t \in Callers, url \in VtUrlInputs : ApiIdle /\ VtBegin(t, url)
    \/ \E t \in Callers, resp \in VtResponses : VtGetResume(t, resp)
    \/ \E t \in Callers, resp \in VtResponses : VtPostResume(t, resp)
    \/ \E t \in Callers, resp \in VtResponses : VtPollResume(t, resp)
    \/ \E t \in Callers : ApiReturn(t)

\* The two cached lookups (WHOIS age, TLS certificate), one call at a time.
NextLookupSeq ==
    \/ \E cfg \in ApiConfigs : ConstructClients(cfg)
    \/ WhoisEnter
    \/ \E d \in ClockSteps : Tick(d)
    \/ \E t \in Callers, d \in DomainInputs : ApiIdle /\ WhoisBegin(t, d)
    \/ \E t \in Callers, o \in WhoisOutcomes, age \in WhoisAges : WhoisResume(t, o, age)
    \/ \E t \in Callers, h \in HostInputs, c \in BOOLEAN : ApiIdle /\ SslBegin(t, h, c)
    \/ \E t \in Callers, net \in CertOutcomes : SslResume(t, net)
    \/ \E t \in Callers : ApiReturn(t)

\* The two cached lookups, interleaving at their awaits: lookups that get
\* past the argument and credential tests, within the hour.
NextLookup ==
    \/ \E cfg \in { c \in ApiConfigs : Enabled(KeyOf(c.whois)) /\ Enabled(KeyOf(c.urlscan)) } :
          ConstructClients(cfg)
    \/ WhoisEnter
    \/ Tick(ShortStep)
    \/ \E t \in Callers, d \in DomainInputs \ {<<>>} : WhoisBegin(t, d)
    \/ \E t \in Callers, o \in WhoisOutcomes, age \in WhoisAges : WhoisResume(t, o, age)
    \/ \E t \in Callers, h \in HostKeys : SslBegin(t, h, TRUE)
    \/ \E t \in Callers, net \in CertOutcomes : SslResume(t, net)
    \/ \E t \in Callers : ApiReturn(t)

\* No client call is waiting for the network.
ApiQuiet == \A t \in Callers : apiCall[t].pc \in {"idle", "done"}

\* URLScan checks one after the other, all within one instant of the clock;
\* a caller may still hold the result of its call when the next one begins.
NextScan ==
    \/ \E cfg \in ApiConfigs : ConstructClients(cfg)
    \/ UrlscanEnter
    \/ \E t \in Callers, url \in CheckUrlInputs : ApiQuiet /\ UrlscanBegin(t, url)
    \/ \E t \in Callers, o \in UrlscanOutcomes : UrlscanResume(t, o)
    \/ \E t \in Callers : ApiReturn(t)

\* get_ssl_info, one call at a time.
NextSsl ==
    \/ \E d \in ClockSteps : Tick(d)
    \/ \E t \in Callers, h \in HostInputs, c \in BOOLEAN : ApiIdle /\ SslBegin(t, h, c)
    \/ \E t \in Callers, net \in CertOutcomes : SslResume(t, net)
    \/ \E t \in Callers : ApiReturn(t)

\* get_ssl_info, one call at a time, with callers that edit what they get.
NextSslAlias ==
    \/ \E d \in ClockSteps : Tick(d)
    \/ \E t \in Callers, h \in HostInputs, c \in BOOLEAN : ApiIdle /\ SslBegin(t, h, c)
    \/ \E t \in Callers, net \in CertOutcomes : SslResume(t, net)
    \/ \E t \in Callers : SslMutate(t)
    \/ \E t \in Callers : ApiReturn(t)

(***************************************************************************)
(* Part 4.  The training script (scripts/train_url_ml.py), which writes    *)
(* the file the scorer of Part 2 loads.                                    *)
(***************************************************************************)
\* FEATURE_NAMES of the script
TRAIN_FEATURE_NAMES ==
    <<"url_len", "domain_len", "digit_count", "subdomain_depth",
      "susp_kw_count", "external_flag", "heur_score">>

\* SUSP_KEYWORDS of the script (a list without repeats)
SUSP_KEYWORDS ==
    { <<"l","o","g","i","n">>, <<"s","i","g","n","i","n">>,
      <<"v","e","r","i","f","y">>, <<"s","e","c","u","r","e">>,
      <<"a","c","c","o","u","n","t">>, <<"u","p","d","a","t","e">>,
      <<"b","i","l","l","i","n","g">>, <<"s","u","p","p","o","r","t">>,
      <<"b","a","n","k">>, <<"w","a","l","l","e","t">>,
      <<"c","r","y","p","t","o">> }

\* (urlparse(url).netloc or "").lower(): the authority, port included; empty
\* for a text without "//".
TrainDomain(url) ==
    IF StartsWith(url, HttpPrefix) \/ StartsWith(url, HttpsPrefix)
    THEN Lower(Netloc(url)) ELSE <<>>

\* A feature row that keeps the length of the URL as it is.
extract_features_rowRaw(url) ==
    LET domain == TrainDomain(url)
        full   == Lower(url)
    IN  [url_len         |-> Fin(Min(Len(url), 3000) * Scale),
         domain_len      |-> FDivBy(Fin(Min(Len(domain), 255) * Scale), 100),
         digit_count     |-> Fin(CountIn(domain, Digits) * Scale),
         subdomain_depth |-> Fin(CountIn(domain, {"."}) * Scale),
         susp_kw_count   |->
             Fin(Cardinality({kw \in SUSP_KEYWORDS : Contains(full, kw)}) * Scale),
         external_flag   |-> Fin(0),
         heur_score      |-> Fin(0)]

\* extract_features_row(url)
extract_features_row(url) ==
    LET domain == TrainDomain(url)
        full   == Lower(url)
    IN  [url_len         |-> FDivBy(Fin(Min(Len(url), 3000) * Scale), 200),
         domain_len      |-> FDivBy(Fin(Min(Len(domain), 255) * Scale), 100),
         digit_count     |-> Fin(CountIn(domain, Digits) * Scale),
         subdomain_depth |-> Fin(CountIn(domain, {"."}) * Scale),
         susp_kw_count   |->
             Fin(Cardinality({kw \in SUSP_KEYWORDS : Contains(full, kw)}) * Scale),
         external_flag   |-> Fin(0),
         heur_score      |-> Fin(0)]

\* model.coef_[0] and model.intercept_[0] of a fit, in thousandths
CoefInputs ==
    { <<15, 0, 400, 300, 600, 1200, 800>>,
      <<-100, 50, 0, -700, 2000, 1, 0>> }
InterceptInputs == {-2000, 300}

\* The JSON main() writes: the weights keyed by the script's names in their
\* order, the intercept, and the two fixed thresholds.
TrainExport(coef, bias) ==
    [kind |-> "object", wkind |-> "map",
     weights |-> WeightMap([n \in {TRAIN_FEATURE_NAMES[i] : i \in 1..Len(TRAIN_FEATURE_NAMES)} |->
                               Fin(coef[CHOOSE i \in 1..Len(TRAIN_FEATURE_NAMES) :
                                           TRAIN_FEATURE_NAMES[i] = n])]),
     bias |-> PyNum(Fin(bias)),
     ts |-> PyNum(Fin(500)), tm |-> PyNum(Fin(800))]

\* URLs that name a port, with the domain a caller may pass: the host alone,
\* or the authority as the script takes it.
PortUrlInputs ==
    { [url |-> <<"h","t","t","p",":","/","/","a","1",".","i","o",":","8","0","/","l","o","g","i","n">>,
       domain |-> <<"a","1",".","i","o">>],
      [url |-> <<"h","t","t","p",":","/","/","a","1",".","i","o",":","8","0","/","l","o","g","i","n">>,
       domain |-> <<"a","1",".","i","o",":","8","0">>],
      [url |-> <<"h","t","t","p","s",":","/","/","E","x","4",".","C","O","M","/">>,
       domain |-> <<"E","x","4",".","C","O","M">>] }

\* The scorer constructed over a file the script wrote.
NextMlTrain ==
    \/ \E coef \in CoefInputs, bias \in InterceptInputs :
          Construct(TrainExport(coef, bias))
    \/ \E in \in UrlInputs \cup PortUrlInputs, ext \in ExternalInputs,
          heur \in HeuristicInputs :
          EvaluateCall(in, ext, heur)
    \/ EvaluateReturn

(***************************************************************************)
(* Part 5.  Payments (app/routes/payments.py): the provider's webhook, the *)
(* status check and process_payment_succeeded, for one payment of one      *)
(* payer buying a new license (metadata with an email, is_renewal false).  *)
(* Handlers interleave at their awaits.  A license key is the number of    *)
(* its generation, 0 for none.                                             *)
(***************************************************************************)
MaxDeliveries == 3
PayCallers == 1..2

NoPayment  == [exists |-> FALSE, status |-> "none", key |-> 0]
NewPayment == [exists |-> TRUE, status |-> "pending", key |-> 0]
NoUser     == [exists |-> FALSE, has_license |-> FALSE, key |-> 0]

\* kind: the route; snap: payment_db, the row as the handler read it; found:
\* the status of the row when a status check read it; ystatus: the status
\* the provider reported; key: the handler's license key; generated: whether
\* this handler had a key generated; gen_failed: whether a generation failed.
IdlePay ==
    [kind |-> "idle", pc |-> "idle", snap |-> NoPayment, found |-> "none",
     ystatus |-> "none", key |-> 0, generated |-> FALSE, gen_failed |-> FALSE,
     processed |-> FALSE, result |-> "none"]

\* What the provider's status request can come back with.
ProviderStatuses == {"pending", "succeeded", "http_error"}

\* The route returns: the webhook answers by the outcome of the processing,
\* the status check by the provider's status whatever the outcome.
PayDone(call, ok) ==
    [call EXCEPT !.pc = "done",
                 !.result = IF call.kind = "check" THEN call.ystatus
                            ELSE IF ok THEN "success" ELSE "error"]

\* process_payment_succeeded from the row it has read up to its next
\* await: done if the row is succeeded with a key; else the user is
\* looked up (and created), and either the key the user has is recorded
\* or a new one is requested.
PpsDecide(call, snap, usr) ==
    IF snap.exists /\ snap.status = "succeeded" /\ snap.key # 0
    THEN PayDone([call EXCEPT !.snap = snap, !.processed = TRUE], TRUE)
    ELSE IF usr.exists /\ usr.has_license
         THEN [call EXCEPT !.snap = snap, !.processed = TRUE, !.key = usr.key,
                           !.pc = "pps_update"]
         ELSE [call EXCEPT !.snap = snap, !.processed = TRUE, !.pc = "pps_generate"]

\* db.create_user when db.get_user found none
UserAfterLookup(snap, usr) ==
    IF snap.exists /\ snap.status = "succeeded" /\ snap.key # 0 THEN usr
    ELSE [usr EXCEPT !.exists = TRUE]

\* create_payment: the row is stored as pending.
CreatePayment ==
    /\ ~payment.exists
    /\ payment' = NewPayment
    /\ UNCHANGED <<user, keysIssued, payCall, deliveries, OutsidePay>>

\* yookassa_webhook up to its await of process_payment_succeeded; paid: the
\* notification is payment.succeeded of a paid payment.
WebhookBegin(p, paid) ==
    /\ payCall[p].pc = "idle"
    /\ deliveries < MaxDeliveries
    /\ deliveries' = deliveries + 1
    /\ payCall' = [payCall EXCEPT ![p] =
          IF paid THEN [IdlePay EXCEPT !.kind = "webhook", !.pc = "pps_read"]
          ELSE [IdlePay EXCEPT !.kind = "webhook", !.pc = "done", !.result = "ignored"]]
    /\ UNCHANGED <<payment, user, keysIssued, OutsidePay>>

\* process_payment_succeeded: db.get_yookassa_payment comes back.
PpsRead(p) ==
    /\ payCall[p].pc = "pps_read"
    /\ IF payment.exists
       THEN /\ payCall' = [payCall EXCEPT ![p] = PpsDecide(payCall[p], payment, user)]
            /\ user' = UserAfterLookup(payment, user)
       ELSE /\ payCall' = [payCall EXCEPT ![p].pc = "pps_create"]
            /\ user' = user
    /\ UNCHANGED <<payment, keysIssued, deliveries, OutsidePay>>

\* process_payment_succeeded: the row was missing; create_yookassa_payment
\* and the second read come back (ok), or the creation raised.
PpsCreate(p, ok) ==
    /\ payCall[p].pc = "pps_create"
    /\ LET row  == IF ok /\ ~payment.exists THEN NewPayment ELSE payment
           snap == IF ok THEN row ELSE NoPayment
       IN  /\ payment' = row
           /\ payCall' = [payCall EXCEPT ![p] = PpsDecide(payCall[p], snap, user)]
           /\ user' = UserAfterLookup(snap, user)
    /\ UNCHANGED <<keysIssued, deliveries, OutsidePay>>

\* process_payment_succeeded: generate_license_key_internal comes back with
\* a key (ok) or with None; the key is saved on the user at once.
PpsGenerate(p, ok) ==
    /\ payCall[p].pc = "pps_generate"
    /\ IF ok
       THEN /\ keysIssued' = keysIssued + 1
            /\ user' = [user EXCEPT !.has_license = TRUE, !.key = keysIssued + 1]
            /\ payCall' = [payCall EXCEPT ![p].key = keysIssued + 1,
                                          ![p].generated = TRUE,
                                          ![p].pc = "pps_update"]
       ELSE /\ keysIssued' = keysIssued
            /\ user' = user
            /\ payCall' = [payCall EXCEPT ![p] =
                             PayDone([payCall[p] EXCEPT !.gen_failed = TRUE], FALSE)]
    /\ UNCHANGED <<payment, deliveries, OutsidePay>>

\* process_payment_succeeded: update_yookassa_payment_status(id,
\* "succeeded", key) comes back, and the handler returns True.
PpsUpdate(p) ==
    /\ payCall[p].pc = "pps_update"
    /\ payment' = IF payment.exists
                  THEN [payment EXCEPT !.status = "succeeded", !.key = payCall[p].key]
                  ELSE payment
    /\ payCall' = [payCall EXCEPT ![p] = PayDone(payCall[p], TRUE)]
    /\ UNCHANGED <<user, keysIssued, deliveries, OutsidePay>>

\* check_payment_status up to its request to the provider: the row is read.
CheckBegin(p) ==
    /\ payCall[p].pc = "idle"
    /\ deliveries < MaxDeliveries
    /\ deliveries' = deliveries + 1
    /\ payCall' = [payCall EXCEPT ![p] =
          IF payment.exists
          THEN [IdlePay EXCEPT !.kind = "check", !.pc = "check_http",
                               !.snap = payment, !.found = payment.status]
          ELSE [IdlePay EXCEPT !.kind = "check", !.pc = "done", !.result = "404"]]
    /\ UNCHANGED <<payment, user, keysIssued, OutsidePay>>

\* check_payment_status from the provider's answer on: a status that differs
\* from the row's is written to the row and to payment_db (upd: the write
\* goes through); then the payment is processed if the provider says
\* succeeded and payment_db does not.
CheckResponse(p, ys, upd) ==
    /\ payCall[p].pc = "check_http"
    /\ LET call    == payCall[p]
           differs == ys # call.snap.status
           snap1   == IF differs /\ upd THEN [call.snap EXCEPT !.status = ys]
                      ELSE call.snap
       IN  IF ys = "http_error"
           THEN /\ payment' = payment
                /\ payCall' = [payCall EXCEPT ![p] =
                      [call EXCEPT !.pc = "done", !.result = call.snap.status]]
           ELSE /\ payment' = IF differs /\ upd /\ payment.exists
                              THEN [payment EXCEPT !.status = ys] ELSE payment
                /\ payCall' = [payCall EXCEPT ![p] =
                      IF ys = "succeeded" /\ snap1.status # "succeeded"
                      THEN [call EXCEPT !.ystatus = ys, !.snap = snap1, !.pc = "pps_read"]
                      ELSE PayDone([call EXCEPT !.ystatus = ys, !.snap = snap1], TRUE)]
    /\ UNCHANGED <<user, keysIssued, deliveries, OutsidePay>>

\* The response has been sent.
PayReturn(p) ==
    /\ payCall[p].pc = "done"
    /\ payCall' = [payCall EXCEPT ![p] = IdlePay]
    /\ UNCHANGED <<payment, user, keysIssued, deliveries, OutsidePay>>

InitPay ==
    /\ payment = NoPayment
    /\ user = NoUser
    /\ keysIssued = 0
    /\ payCall = [p \in PayCallers |-> IdlePay]
    /\ deliveries = 0

NextPay ==
    \/ CreatePayment
    \/ \E p \in PayCallers, paid \in BOOLEAN : WebhookBegin(p, paid)
    \/ \E p \in PayCallers : PpsRead(p)
    \/ \E p \in PayCallers, ok \in BOOLEAN : PpsCreate(p, ok)
    \/ \E p \in PayCallers, ok \in BOOLEAN : PpsGenerate(p, ok)
    \/ \E p \in PayCallers : PpsUpdate(p)
    \/ \E p \in PayCallers : CheckBegin(p)
    \/ \E p \in PayCallers, ys \in ProviderStatuses, upd \in BOOLEAN : CheckResponse(p, ys, upd)
    \/ \E p \in PayCallers : PayReturn(p)

(***************************************************************************)
(* Part 6.  The monitor (avqon-monitor): the analysis worker, which hashes *)
(* fetched posts and records copies of protected posts as matches, and the *)
(* notifier, which tells the owner of the original channel.  Text is kept  *)
(* as a class: two posts are similar when they are of the same class.      *)
(***************************************************************************)
MaxPosts == 3
MaxHashes == 2
MaxSendAttempts == 2
PostIds == 1..MaxPosts
TextClasses == {"a", "b"}

\* The channels table: a protected channel with an owner, a protected
\* channel whose row has no user_id, and a watched channel.
ChannelRows ==
    <<[is_protected |-> TRUE,  user_id |-> 1],
      [is_protected |-> TRUE,  user_id |-> 0],
      [is_protected |-> FALSE, user_id |-> 0]>>
ChannelIds == DOMAIN ChannelRows

NoPost == [exists |-> FALSE, channel_id |-> 0, text |-> "", processed |-> FALSE,
           hashes |-> 0]

IdleWorker == [pc |-> "idle", batch |-> <<>>, selected |-> {}, protected |-> {},
               failed |-> {}]

IdleNotifier == [pc |-> "idle", batch |-> <<>>]

\* The ids of S in ascending order.
RECURSIVE Ascending(_)
Ascending(S) ==
    IF S = {} THEN <<>>
    ELSE LET m == CHOOSE x \in S : \A y \in S : x <= y
         IN  <<m>> \o Ascending(S \ {m})

\* insert_raw_post: the fetcher stores a post under the next post_id
InsertRawPost(c, txt) ==
    /\ \E p \in PostIds :
          /\ ~posts[p].exists
          /\ \A q \in PostIds : q < p => posts[q].exists
          /\ posts' = [posts EXCEPT ![p] =
                         [NoPost EXCEPT !.exists = TRUE, !.channel_id = c,
                                        !.text = txt]]
    /\ UNCHANGED <<matches, worker, notifier, OutsideMon>>

\* get_unprocessed_posts: WHERE rp.processed = 0 ORDER BY rp.date
GetUnprocessedPosts ==
    {p \in PostIds : posts[p].exists /\ ~posts[p].processed}

\* get_protected_hashes_for_comparison: the hashed posts of protected channels
GetProtectedHashes ==
    {p \in PostIds : /\ posts[p].exists /\ posts[p].hashes > 0
                     /\ ChannelRows[posts[p].channel_id].is_protected}

\* The comparison without the test of the post's own channel.
MatchesFoundAnyChannel(p, refs) ==
    LET similar == {r \in refs : r # p /\ posts[r].text = posts[p].text}
    IN  IF similar = {} THEN {<<>>}
        ELSE {<<[original_post_id |-> r, copied_post_id |-> p]>> : r \in similar}

\* process_post_sync, its comparison: the lists of matches it can return
\* (the order of the protected rows is the database's)
MatchesFound(p, refs) ==
    IF ChannelRows[posts[p].channel_id].is_protected THEN {<<>>}
    ELSE LET similar == {r \in refs : r # p /\ posts[r].text = posts[p].text}
         IN  IF similar = {} THEN {<<>>}
             ELSE {<<[original_post_id |-> r, copied_post_id |-> p]>> :
                      r \in similar}

NewMatch(m) == [original_post_id |-> m.original_post_id,
                copied_post_id |-> m.copied_post_id,
                notified |-> FALSE, attempts |-> 0, sends |-> 0]

\* run_worker_once up to its loop
RunWorkerBegin ==
    /\ worker.pc = "idle"
    /\ worker' = IF GetUnprocessedPosts = {}
                 THEN worker
                 ELSE [pc |-> "loop", batch |-> Ascending(GetUnprocessedPosts),
                       selected |-> GetUnprocessedPosts,
                       protected |-> GetProtectedHashes,
                       failed |-> {}]
    /\ UNCHANGED <<posts, matches, notifier, OutsideMon>>

\* What process_post_sync can hand back, over all posts.
FoundInputs ==
    {<<>>} \cup {<<[original_post_id |-> r, copied_post_id |-> p]>> :
                   r \in PostIds, p \in PostIds}

\* One turn of the loop of run_worker_once: process_post_sync and the
\* insert_match calls, up to the sleep.  raises says where an exception
\* came, if one did; the except clause of the loop logs it.
RaisePoints == {"none", "before_hash", "before_mark", "insert_match"}

RunWorkerPost(raises, found) ==
    /\ worker.pc = "loop" /\ worker.batch # <<>>
    /\ LET p == Head(worker.batch)
           inserts == raises \in {"none", "insert_match"}
       IN  /\ found \in MatchesFound(p, worker.protected)
           /\ raises = "insert_match" => found # <<>>
           \* the bound on the content_hashes rows of a post
           /\ raises = "before_mark" => posts[p].hashes + 1 < MaxHashes
           /\ posts' = [posts EXCEPT ![p] =
                 [@ EXCEPT !.hashes = IF raises = "before_hash" THEN @ ELSE @ + 1,
                           !.processed = IF inserts THEN TRUE ELSE @]]
           /\ matches' = IF raises = "none"
                         THEN matches \o [i \in DOMAIN found |-> NewMatch(found[i])]
                         ELSE matches
           /\ worker' = [worker EXCEPT
                 !.batch = Tail(@),
                 !.failed = IF raises = "none" THEN @ ELSE @ \cup {p}]
    /\ UNCHANGED <<notifier, OutsideMon>>

\* run_worker_once returns after the last post.
RunWorkerReturn ==
    /\ worker.pc = "loop" /\ worker.batch = <<>>
    /\ worker' = IdleWorker
    /\ UNCHANGED <<posts, matches, notifier, OutsideMon>>

\* get_unnotified_matches: WHERE m.notified = 0
GetUnnotifiedMatches == {i \in DOMAIN matches : ~matches[i].notified}

\* get_user_id_by_channel_id of the match's original channel
GetUserIdByChannelId(i) ==
    ChannelRows[posts[matches[i].original_post_id].channel_id].user_id

\* send_match_notifications up to its loop
NotifierBegin ==
    /\ notifier.pc = "idle"
    /\ notifier' = [pc |-> "loop", batch |-> Ascending(GetUnnotifiedMatches)]
    /\ UNCHANGED <<posts, matches, worker, OutsideMon>>

\* One turn of the loop up to the send: a match without an owner is marked
\* and passed over.
NotifierLookup ==
    /\ notifier.pc = "loop" /\ notifier.batch # <<>>
    /\ LET i == Head(notifier.batch)
       IN  IF GetUserIdByChannelId(i) = 0
           THEN /\ matches' = [matches EXCEPT ![i].notified = TRUE]
                /\ notifier' = [notifier EXCEPT !.batch = Tail(@)]
           ELSE /\ matches' = [matches EXCEPT ![i].attempts = @ + 1]
                /\ notifier' = [notifier EXCEPT !.pc = "sending"]
    /\ UNCHANGED <<posts, worker, OutsideMon>>

\* A notifier that marks the match whatever became of the send.
MarkingNotifierSendResume(sent, marked) ==
    /\ notifier.pc = "sending"
    /\ matches[Head(notifier.batch)].attempts < MaxSendAttempts \/ (sent /\ marked)
    /\ LET i == Head(notifier.batch)
       IN  matches' = [matches EXCEPT
                         ![i].sends = IF sent THEN @ + 1 ELSE @,
                         ![i].notified = TRUE]
    /\ notifier' = [notifier EXCEPT !.pc = "loop", !.batch = Tail(@)]
    /\ UNCHANGED <<posts, worker, OutsideMon>>

\* bot.send_message has answered or raised; mark_match_notified follows a
\* delivered message and can raise in turn.  After MaxSendAttempts attempts
\* the send and the marking succeed (the bound on attempts and sends).
NotifierSendResume(sent, marked) ==
    /\ notifier.pc = "sending"
    /\ matches[Head(notifier.batch)].attempts < MaxSendAttempts \/ (sent /\ marked)
    /\ LET i == Head(notifier.batch)
       IN  matches' = [matches EXCEPT
                         ![i].sends = IF sent THEN @ + 1 ELSE @,
                         ![i].notified = sent /\ marked]
    /\ notifier' = [notifier EXCEPT !.pc = "loop", !.batch = Tail(@)]
    /\ UNCHANGED <<posts, worker, OutsideMon>>

\* send_match_notifications returns after the last match.
NotifierReturn ==
    /\ notifier.pc = "loop" /\ notifier.batch = <<>>
    /\ notifier' = IdleNotifier
    /\ UNCHANGED <<posts, matches, worker, OutsideMon>>

InitMon ==
    /\ posts = [p \in PostIds |-> NoPost]
    /\ matches = <<>>
    /\ worker = IdleWorker
    /\ notifier = IdleNotifier

\* The scheduler runs the fetcher, the worker and the notifier as separate
\* jobs of one event loop: they interleave at their awaits, and a job is
\* not started again while its last run is still going.
NextMon ==
    \/ \E c \in ChannelIds, txt \in TextClasses : InsertRawPost(c, txt)
    \/ RunWorkerBegin
    \/ \E raises \in RaisePoints, found \in FoundInputs : RunWorkerPost(raises, found)
    \/ RunWorkerReturn
    \/ NotifierBegin
    \/ NotifierLookup
    \/ \E sent \in BOOLEAN, marked \in BOOLEAN : NotifierSendResume(sent, marked)
    \/ NotifierReturn

(***************************************************************************)
(* The system.                                                             *)
(***************************************************************************)
InitCache ==
    /\ whitelist \in SUBSET Rows
    /\ blacklist \in SUBSET Rows
    /\ whitelist \cap blacklist = {}
    /\ task = [t \in Tasks |-> IdleTask]

Init == InitCache /\ InitMl /\ InitApi /\ InitPay /\ InitMon

\* Handlers interleave at their awaits (one asyncio event loop).
NextCache ==
    \/ \E t \in Tasks, u \in Urls : RecheckBegin(t, u)
    \/ \E t \in Tasks, v \in Verdicts : RecheckResume(t, v, TRUE)
    \/ \E t \in Tasks, g \in ConcurrentTargets, l \in ConcurrentLimits :
          RefreshBegin(t, g, l)
    \/ \E t \in Tasks, v \in Verdicts : RefreshResume(t, v, TRUE)
    \/ \E t \in Tasks : HandlerReturn(t)

\* One admin operation at a time: each runs to completion before the next.
NextCacheSeq ==
    \/ \E t \in Tasks, u \in Urls : AllIdle /\ RecheckBegin(t, u)
    \/ \E t \in Tasks, v \in Verdicts : RecheckResume(t, v, TRUE)
    \/ \E t \in Tasks, g \in TargetInputs, l \in LimitInputs :
          AllIdle /\ RefreshBegin(t, g, l)
    \/ \E t \in Tasks, v \in Verdicts : RefreshResume(t, v, TRUE)
    \/ \E t \in Tasks : HandlerReturn(t)

\* Bulk refreshes one at a time, over stores whose calls may raise.
NextRefresh ==
    \/ \E t \in Tasks, g \in TargetInputs, l \in LimitInputs :
          AllIdle /\ RefreshBegin(t, g, l)
    \/ \E t \in Tasks, v \in Verdicts, ok \in BOOLEAN : RefreshResume(t, v, ok)
    \/ \E t \in Tasks : HandlerReturn(t)

\* Every cached record carries its url.
InitUrlRows == Init /\ NoUrl \notin whitelist \cup blacklist

\* The stores hold nothing (the parts that do not read them start here).
InitEmptyStores == Init /\ whitelist = {} /\ blacklist = {}

SpecCache    == InitUrlRows /\ [][NextCache]_vars
SpecCacheSeq == Init /\ [][NextCacheSeq]_vars
SpecRefresh  == Init /\ [][NextRefresh]_vars
SpecMl       == InitEmptyStores /\ [][NextMl]_vars
SpecMlDefault == InitEmptyStores /\ [][NextMlDefault]_vars
SpecMlTrain  == InitEmptyStores /\ [][NextMlTrain]_vars
SpecApi      == InitEmptyStores /\ [][NextApi]_vars
SpecSsl      == InitEmptyStores /\ [][NextSsl]_vars
SpecSslAlias == InitEmptyStores /\ [][NextSslAlias]_vars
SpecScan     == InitEmptyStores /\ [][NextScan]_vars
SpecLookupSeq == InitEmptyStores /\ [][NextLookupSeq]_vars
SpecLookup   == InitEmptyStores /\ [][NextLookup]_vars
SpecPay      == InitEmptyStores /\ [][NextPay]_vars
SpecMon      == InitEmptyStores /\ [][NextMon]_vars

Next == NextCache \/ NextMl \/ NextMlTrain \/ NextApi \/ NextSsl \/ NextSslAlias \/ NextLookup \/ NextPay \/ NextMon
Spec == Init /\ [][Next]_vars

(***************************************************************************)
(* Claims.                                                                 *)
(***************************************************************************)

\* C1: after any sequence of completed recheck and bulk refresh operations,
\* whatever the verdicts, no URL is in the whitelist and in the blacklist.
C1_StoresDisjoint ==
    NoneInFlight => whitelist \cap blacklist = {}

C3_RecheckAtomic ==
    [][ \A t \in Tasks :
          (task[t].kind = "recheck" /\ task[t].pc = "await" /\ task'[t].pc = "done")
              => ~(task[t].url \in whitelist' /\ task[t].url \in blacklist') ]_vars

\* C4: every evaluate call returns an ml_score in the closed interval [0,1].
C4_ScoreInUnitInterval ==
    mlCall.called =>
        /\ mlCall.out.ml_score.k = "fin"
        /\ mlCall.out.ml_score.v >= 0
        /\ mlCall.out.ml_score.v <= Scale

\* C5 as stated: the label is one of the three and follows the score:
\* score >= tm gives malicious, ts <= score < tm gives suspicious, every
\* other score gives safe.
C5_LabelAsStated ==
    mlCall.called =>
        LET sc  == mlCall.out.ml_score
            lab == mlCall.out.label
            mal == FGe(sc, mlModel.tm)
            sus == FGe(sc, mlModel.ts) /\ FLt(sc, mlModel.tm)
        IN  /\ lab \in {"safe", "suspicious", "malicious"}
            /\ mal => lab = "malicious"
            /\ sus => lab = "suspicious"
            /\ (~mal /\ ~sus) => lab = "safe"

\* C5 as amended: score >= tm gives malicious; otherwise score >= ts gives
\* suspicious; otherwise safe.  This is the stated rule whenever
\* threshold_malicious is a number.
C5_LabelFollowsThresholds ==
    mlCall.called =>
        LET sc  == mlCall.out.ml_score
            lab == mlCall.out.label
            mal == FGe(sc, mlModel.tm)
            sus == FGe(sc, mlModel.ts)
        IN  /\ lab \in {"safe", "suspicious", "malicious"}
            /\ lab = "malicious" <=> mal
            /\ lab = "suspicious" <=> (~mal /\ sus)
            /\ lab = "safe" <=> (~mal /\ ~sus)
            /\ mlModel.tm.k # "nan" =>
                   (lab = "suspicious" <=> (sus /\ FLt(sc, mlModel.tm)))

C5_Witness ==
    /\ mlCall.called
    /\ mlCall.out.label = "suspicious"
    /\ mlFile.kind = "object"
    /\ mlFile.tm.t = "num" /\ mlFile.tm.f.k = "fin"

\* The file is missing or malformed: not JSON, no object, a "weights" that
\* is no mapping, or a bias or threshold that float() rejects.
Malformed(file) ==
    \/ file.kind # "object"
    \/ file.wkind = "not_map"
    \/ ~GetFloat(file.bias, DefaultBias).ok
    \/ ~GetFloat(file.ts, ThresholdSuspicious).ok
    \/ ~GetFloat(file.tm, ThresholdMalicious).ok

\* C6: with a missing or malformed file the constructed model has the
\* built-in weights, bias and thresholds, and nothing from the file.
C6_MalformedFileGivesDefaults ==
    (mlPhase = "serving" /\ Malformed(mlFile)) =>
        /\ mlModel.weights = DefaultWeights
        /\ mlModel.bias = DefaultBias
        /\ mlModel.ts = ThresholdSuspicious
        /\ mlModel.tm = ThresholdMalicious

\* The features the file's weights map names.
Named(file) == {f \in FeatureSet : file.weights[f].present}

\* The sum over the named features only: every product of a feature the
\* map does not name is left out.
RECURSIVE SumOver(_, _, _)
SumOver(S, w, x) ==
    IF S = {} THEN Fin(0)
    ELSE LET f == CHOOSE g \in S : TRUE
         IN  FAdd(FMul(w[f].w, x[f]), SumOver(S \ {f}, w, x))

\* C7: a file whose weights map names only some features loads (the model
\* is the file's), and evaluate weighs every feature the map does not name
\* by 0.0, not by its built-in weight: whenever those features are numbers,
\* z is the bias plus the products of the named features alone.
C7_UnnamedWeightsAreZero ==
    (mlPhase = "serving" /\ mlFile.kind = "object" /\ mlFile.wkind = "map"
        /\ ~Malformed(mlFile) /\ Named(mlFile) # FeatureSet) =>
        /\ mlModel.loaded
        /\ \A f \in FeatureSet \ Named(mlFile) : WeightOf(mlModel, f) = Fin(0)
        /\ mlCall.called =>
              LET x == ScaledFeatures(ExtractFeatures(mlCall.in.url,
                           mlCall.in.domain, mlCall.ext, mlCall.heur))
              IN  (\A f \in FeatureSet \ Named(mlFile) : x[f].k = "fin") =>
                      mlCall.out.z =
                          FAdd(mlModel.bias, SumOver(Named(mlFile), mlFile.weights, x))

C7_Witness ==
    /\ mlPhase = "serving" /\ mlFile.kind = "object" /\ mlFile.wkind = "map"
    /\ Named(mlFile) = {"digit_count"}
    /\ mlFile.bias = PyNum(Fin(-1000))
    /\ mlCall.called
    /\ mlCall.in.url # <<>>
    /\ mlCall.out.z = Fin(1000)

\* C8: from a well-formed file every omitted top-level field keeps its
\* built-in default and every present field has the file's value.
C8_AbsentFieldsDefault ==
    (mlPhase = "serving" /\ ~Malformed(mlFile)) =>
        /\ mlModel.weights =
              (IF mlFile.wkind = "absent" THEN DefaultWeights ELSE mlFile.weights)
        /\ mlModel.bias =
              (IF mlFile.bias.t = "absent" THEN Fin(-2000) ELSE PyFloat(mlFile.bias).val)
        /\ mlModel.ts =
              (IF mlFile.ts.t = "absent" THEN Fin(500) ELSE PyFloat(mlFile.ts).val)
        /\ mlModel.tm =
              (IF mlFile.tm.t = "absent" THEN Fin(800) ELSE PyFloat(mlFile.tm).val)

C8_Witness ==
    /\ mlPhase = "serving" /\ ~Malformed(mlFile)
    /\ mlFile.wkind = "absent" /\ mlFile.bias.t = "num"
    /\ mlFile.ts.t = "absent" /\ mlFile.tm.t = "num"
    /\ mlModel.bias = Fin(-1000) /\ mlModel.ts = Fin(500)

\* No key configured: None, the empty string, or a placeholder with "your_".
NoKeyConfigured(x) ==
    x.t = "null" \/ x.s = <<>> \/ Contains(x.s, <<"y","o","u","r","_">>)

\* C9: with no API key configured (absent, empty, or a placeholder that
\* contains "your_"), enabled is False on WhoisXMLClient and on URLScanClient,
\* and every get_domain_age_days call has returned None, without raising and
\* without waiting for anything.
C9_NoKeyMeansDisabled ==
    apiPhase = "ready" =>
        /\ NoKeyConfigured(apiConfig.urlscan) => ~Enabled(urlscan.api_key)
        /\ NoKeyConfigured(apiConfig.whois) =>
              /\ ~Enabled(whois.api_key)
              /\ \A t \in Callers : apiCall[t].client = "whois" =>
                    /\ apiCall[t].pc = "done"
                    /\ apiCall[t].result = ResNone
                    /\ ~apiCall[t].raised

C9_Witness ==
    /\ apiPhase = "ready"
    /\ apiConfig.whois = KeyPlaceholder
    /\ NoKeyConfigured(apiConfig.urlscan)
    /\ whois.session
    /\ \E t \in Callers :
          /\ apiCall[t].client = "whois" /\ apiCall[t].pc = "done"
          /\ apiCall[t].arg # <<>>
          /\ apiCall[t].result = ResNone

\* The call in progress belongs to a gatherer that is disabled (no usable
\* key) or whose rate limit is used up.
ShortCircuited(t) ==
    \/ apiCall[t].client = "whois" /\ ~Enabled(whois.api_key)
    \/ apiCall[t].client = "urlscan" /\ ~Enabled(urlscan.api_key)
    \/ apiCall[t].client = "vt" /\ apiCall[t].limited

\* C10: a gatherer without credentials (enabled is False) or with its rate
\* limit used up issues no HTTP request: get_domain_age_days of WhoisXML,
\* check_url of URLScan and check_url of VirusTotal have returned with zero
\* requests issued, open session or not.
C10_DisabledIssuesNoRequest ==
    \A t \in Callers :
        (apiPhase = "ready" /\ ShortCircuited(t)) =>
            /\ apiCall[t].pc = "done"
            /\ apiCall[t].requests = 0

\* C11: no client call raises to its caller, whatever the network does:
\* get_domain_age_days, URLScan check_url and VirusTotal check_url return.
C11_NoCallRaises ==
    \A t \in Callers : ~apiCall[t].raised

\* Caller t's call begins / returns in this step.
Starts(t)    == apiCall[t].pc = "idle" /\ apiCall'[t].pc # "idle"
Completes(t) == apiCall[t].pc # "done" /\ apiCall'[t].pc = "done"

\* A WHOIS lookup that gets to the cache: a domain, credentials present.
WhoisLookup(t) ==
    /\ Starts(t)
    /\ apiCall'[t].client = "whois"
    /\ apiCall'[t].arg # <<>>
    /\ Enabled(whois.api_key)

\* A TLS lookup that gets to the cache: a hostname, use_cache left on.
SslLookup(t) ==
    /\ Starts(t)
    /\ apiCall'[t].client = "ssl"
    /\ Strip(apiCall'[t].arg) # <<>>
    /\ apiCall'[t].use_cache

\* An entry younger than its TTL is returned as it is, with no network call
\* and no write; each cache by its own entry and its own TTL.
CacheHits(t) ==
    /\ WhoisLookup(t) =>
         LET e == whoisCache[apiCall'[t].domain]
         IN  (e.has /\ clock - e.ts < 24 * 3600) =>
                /\ apiCall'[t].pc = "done"
                /\ apiCall'[t].requests = 0
                /\ apiCall'[t].result = (IF e.known THEN ResAge(e.age) ELSE ResNone)
                /\ whoisCache' = whoisCache
    /\ SslLookup(t) =>
         LET e == sslCache[apiCall'[t].domain]
         IN  (e.has /\ clock - e.ts < 3600) =>
                /\ apiCall'[t].pc = "done"
                /\ apiCall'[t].requests = 0
                /\ apiCall'[t].result.ssl = e.data
                /\ sslCache' = sslCache

\* The TLS lookup of an expired entry does the handshake and replaces the
\* entry with what it brought, stamped with the time the lookup began.
SslMisses(t) ==
    /\ SslLookup(t) =>
         LET e == sslCache[apiCall'[t].domain]
         IN  (e.has /\ clock - e.ts >= 3600) =>
                apiCall'[t].pc = "ssl_wait" /\ apiCall'[t].requests = 1
    /\ (apiCall[t].pc = "ssl_wait" /\ Completes(t)) =>
         sslCache'[apiCall[t].domain] =
            [has |-> TRUE, data |-> apiCall'[t].result.ssl, ts |-> apiCall[t].now]

\* C12 as stated: an entry younger than the TTL is returned without a
\* network call; an entry of age TTL or more is a miss, the lookup performs
\* the network call and replaces the entry (WHOIS 24 h, TLS 1 h).
C12_ExpiredEntryIsReplaced ==
    [][\A t \in Callers :
         /\ CacheHits(t)
         /\ SslMisses(t)
         /\ WhoisLookup(t) =>
              LET e == whoisCache[apiCall'[t].domain]
              IN  (e.has /\ clock - e.ts >= 24 * 3600) =>
                     apiCall'[t].pc = "whois_http" /\ apiCall'[t].requests = 1
         /\ (apiCall[t].pc = "whois_http" /\ Completes(t)) =>
              LET e == whoisCache[apiCall[t].domain]
              IN  (e.has /\ apiCall[t].now - e.ts >= 24 * 3600) =>
                     /\ whoisCache'[apiCall[t].domain].has
                     /\ whoisCache'[apiCall[t].domain].ts = apiCall[t].now
    ]_vars

\* C12: an entry younger than the TTL (WHOIS 24 h, TLS 1 h) is returned
\* without a network call; an entry of age TTL or more is never returned.
\* The TLS lookup then does the handshake and replaces the entry.  The WHOIS
\* lookup returns None without a request when the client has no session;
\* with a session it performs the request and replaces the entry with the
\* outcome, except after a timeout, which leaves the expired entry in place.
C12_TtlHitAndMiss ==
    [][\A t \in Callers :
         /\ CacheHits(t)
         /\ SslMisses(t)
         /\ WhoisLookup(t) =>
              LET e == whoisCache[apiCall'[t].domain]
              IN  (e.has /\ clock - e.ts >= 24 * 3600) =>
                     IF whois.session
                     THEN apiCall'[t].pc = "whois_http" /\ apiCall'[t].requests = 1
                     ELSE /\ apiCall'[t].pc = "done"
                          /\ apiCall'[t].requests = 0
                          /\ apiCall'[t].result = ResNone
         /\ (apiCall[t].pc = "whois_http" /\ Completes(t)) =>
              IF apiCall'[t].outcome = "timeout"
              THEN whoisCache' = whoisCache
              ELSE whoisCache'[apiCall[t].domain] =
                     [has |-> TRUE, known |-> apiCall'[t].result.kind = "int",
                      age |-> apiCall'[t].result.age, ts |-> apiCall[t].now]
    ]_vars

\* A WHOIS lookup answered from a twelve-hour-old entry while the TLS entry
\* of the same name has expired.
C12_Witness ==
    \E t \in Callers :
        /\ apiCall[t].client = "whois" /\ apiCall[t].pc = "done"
        /\ apiCall[t].requests = 0 /\ apiCall[t].result.kind = "int"
        /\ clock - whoisCache[apiCall[t].domain].ts >= 12 * 3600
        /\ sslCache[apiCall[t].domain].has
        /\ clock - sslCache[apiCall[t].domain].ts >= 3600

\* C13: URLScan check_url has a TTL cache keyed by domain: once a lookup of
\* a domain has completed with a search result, a later check of the same
\* domain within the TTL is answered from the cache, with no search request.
C13_SecondCheckFromCache ==
    \A s, t \in Callers :
        ( /\ s # t
          /\ apiCall[s].client = "urlscan" /\ apiCall[s].pc = "done"
          /\ apiCall[s].outcome \in {"clean", "malicious"}
          /\ apiCall[t].client = "urlscan" /\ apiCall[t].pc = "urlscan_http"
          /\ apiCall[t].domain = apiCall[s].domain )
        => apiCall[t].requests = 0

C16_EvaluateIsPure ==
    mlPhase = "serving" =>
        LET loaded == LoadFromDisk(DefaultModel, mlFile)
        IN  /\ mlModel = loaded
            /\ mlCall.called =>
                  mlCall.out = Evaluate(loaded, mlCall.in.url, mlCall.in.domain,
                                        mlCall.ext, mlCall.heur)

\* A call on a model whose bias came from its file.
C16_Witness ==
    /\ mlPhase = "serving"
    /\ mlCall.called
    /\ mlFile.bias.t = "num"
    /\ mlModel.bias = Fin(-1000)
    /\ mlCall.out.label = "malicious"

\* The two URLs of the example.
Ex4mpl3 ==
    [url |-> <<"h","t","t","p","s",":","/","/","e","x","4","m","p","l","3",".","c","o","m","/">>,
     domain |-> <<"e","x","4","m","p","l","3",".","c","o","m">>]
Example ==
    [url |-> <<"h","t","t","p","s",":","/","/","e","x","a","m","p","l","e",".","c","o","m","/">>,
     domain |-> <<"e","x","a","m","p","l","e",".","c","o","m">>]

\* The call in progress was made with no external and no heuristic result.
BareCall == mlCall.ext.isNone /\ mlCall.heur.isNone

\* With the default model, what the call in progress would have returned
\* for the URL and domain of in, its other arguments unchanged.
OtherCall(in) == Evaluate(mlModel, in.url, in.domain, mlCall.ext, mlCall.heur)

\* The features of in differ from those of the call in progress in
\* digit_count only, which is larger for in (a NaN equals nothing).
MoreDigitsOnly(in) ==
    LET f == ExtractFeatures(mlCall.in.url, mlCall.in.domain, mlCall.ext, mlCall.heur)
        g == ExtractFeatures(in.url, in.domain, mlCall.ext, mlCall.heur)
    IN  /\ \A n \in FeatureSet \ {"digit_count"} : f[n] = g[n] /\ f[n].k # "nan"
        /\ f.digit_count.v < g.digit_count.v

\* The example: ex4mpl3.com scores strictly above example.com.
ExampleHolds ==
    (mlCall.in = Example /\ BareCall) =>
        LET other == OtherCall(Ex4mpl3)
        IN  /\ mlCall.out.ml_score.k = "fin" /\ other.ml_score.k = "fin"
            /\ mlCall.out.ml_score.v < other.ml_score.v

RECURSIVE UpToColon(_)
UpToColon(s) ==
    IF s = <<>> \/ Head(s) = ":" THEN <<>>
    ELSE <<Head(s)>> \o UpToColon(Tail(s))
HostOf(url) == Lower(UpToColon(TrainDomain(url)))

\* The values the call in progress multiplied the weights by are those of
\* the script's row for the same URL.
SameFeatureValues ==
    ScaledFeatures(ExtractFeatures(mlCall.in.url, mlCall.in.domain,
                                   mlCall.ext, mlCall.heur))
        = extract_features_row(mlCall.in.url)

\* The served weights are the fitted coefficients, each under the name at
\* its position.
WeightsKeyedByNames ==
    \E coef \in CoefInputs, bias \in InterceptInputs :
       /\ mlFile = TrainExport(coef, bias)
       /\ mlModel.bias = Fin(bias)
       /\ \A i \in 1..Len(FEATURE_NAMES) :
             /\ mlModel.weights[FEATURE_NAMES[i]].present
             /\ WeightOf(mlModel, FEATURE_NAMES[i]) = Fin(coef[i])

\* C18 as stated: scorer and script use the same ordered names, the exported
\* weights are keyed by them, and for a call without external or heuristic
\* result whose domain is the host of the URL the scorer multiplies the
\* weights by the values the script computed.
C18_HostAsStated ==
    /\ TRAIN_FEATURE_NAMES = FEATURE_NAMES
    /\ mlPhase = "serving" => WeightsKeyedByNames
    /\ (mlCall.called /\ BareCall /\ Lower(mlCall.in.domain) = HostOf(mlCall.in.url))
          => SameFeatureValues

\* C18, with the domain the script itself takes: scorer and script use the
\* same ordered names, the exported weights are keyed by them, and for a
\* call without external or heuristic result whose domain is, up to case,
\* the authority of the URL (the host with its port, if the URL names one)
\* the scorer multiplies the weights by the values the script computed.
C18_TrainingMatchesRuntime ==
    /\ TRAIN_FEATURE_NAMES = FEATURE_NAMES
    /\ mlPhase = "serving" => WeightsKeyedByNames
    /\ (mlCall.called /\ BareCall /\ Lower(mlCall.in.domain) = TrainDomain(mlCall.in.url))
          => SameFeatureValues

\* A scored URL with a port, a keyword and an upper-case-free authority as
\* domain, over a fitted file whose weights differ from the defaults.
C18_Witness ==
    /\ mlCall.called /\ BareCall
    /\ mlFile = TrainExport(<<-100, 50, 0, -700, 2000, 1, 0>>, 300)
    /\ mlCall.in.domain = <<"a","1",".","i","o",":","8","0">>
    /\ TrainDomain(mlCall.in.url) = mlCall.in.domain
    /\ SameFeatureValues
    /\ extract_features_row(mlCall.in.url).susp_kw_count = Fin(Scale)

\* Caller t's finished get_ssl_info call returned a dict with exactly the
\* three keys, each None or a text, and did not raise.
SslResultFlat(t) ==
    /\ ~apiCall'[t].raised
    /\ apiCall'[t].pc = "done" =>
          /\ apiCall'[t].result.kind = "ssl"
          /\ DOMAIN apiCall'[t].result.ssl = SslKeys
          /\ \A k \in SslKeys : apiCall'[t].result.ssl[k] \in {"none", "org", "iso"}

\* Caller t begins get_ssl_info with an empty or whitespace-only hostname.
BlankSslCall(t) ==
    /\ Starts(t)
    /\ apiCall'[t].client = "ssl"
    /\ Strip(apiCall'[t].arg) = <<>>

\* C19: get_ssl_info never raises and returns a dict with exactly the keys
\* ssl_issuer, ssl_valid_from, ssl_valid_to, each possibly None; for an
\* empty or whitespace-only hostname the call returns at once with the three
\* values None, no handshake, and the cache as it was, whatever it holds.
C19_SslInfoTotal ==
    [][\A t \in Callers :
          /\ apiCall'[t].client = "ssl" => SslResultFlat(t)
          /\ BlankSslCall(t) =>
                /\ apiCall'[t].pc = "done"
                /\ apiCall'[t].result = ResSsl(AllNone, FALSE)
                /\ apiCall'[t].requests = 0
                /\ sslCache' = sslCache]_vars

\* A whitespace-only hostname answered with three Nones while the cache
\* holds a certificate.
C19_Witness ==
    \E t \in Callers :
       /\ apiCall[t].client = "ssl" /\ apiCall[t].pc = "done"
       /\ apiCall[t].arg = <<" ", " ">>
       /\ apiCall[t].result.ssl = AllNone
       /\ \E h \in HostKeys : sslCache[h].has /\ sslCache[h].data # AllNone

\* Caller t's lookup, which missed the cache and went to the network,
\* returns in this step.
MissCompletes(t) ==
    /\ apiCall[t].pc \in {"whois_http", "ssl_wait"}
    /\ Completes(t)

\* Another caller's lookup of the same cache and domain has missed too and
\* has already returned: t is the one that finishes last.
FinishesLast(t) ==
    /\ MissCompletes(t)
    /\ \E u \in Callers \ {t} :
          /\ apiCall[u].pc = "done" /\ apiCall[u].requests > 0
          /\ apiCall[u].client = apiCall[t].client
          /\ apiCall[u].domain = apiCall[t].domain

\* The entry of the lookup's domain after the step, and the entry made of
\* what the lookup returned and the time it began.
EntryAfter(t) ==
    IF apiCall[t].client = "whois" THEN whoisCache'[apiCall[t].domain]
    ELSE sslCache'[apiCall[t].domain]
OwnEntry(t) ==
    IF apiCall[t].client = "whois" THEN Entry(apiCall'[t].result, apiCall[t].now)
    ELSE SslEntry(apiCall'[t].result.ssl, apiCall[t].now)

\* Every entry present is a (value, timestamp) pair: a timestamp not after
\* the clock, and an age or None, or the three certificate fields.
EntriesWellFormed ==
    /\ \A d \in CacheKeys :
          /\ whoisCache[d] \in [has : BOOLEAN, known : BOOLEAN, age : WhoisAges, ts : Nat]
          /\ whoisCache[d].has => whoisCache[d].ts <= clock
          /\ ~whoisCache[d].known => whoisCache[d].age = 0
    /\ \A h \in HostKeys :
          /\ sslCache[h].has \in BOOLEAN /\ sslCache[h].ts \in Nat
          /\ DOMAIN sslCache[h].data = SslKeys
          /\ sslCache[h].has => sslCache[h].ts <= clock

\* C20 as stated: of two lookups of one domain that both missed the cache,
\* the one that finishes last leaves its own (value, timestamp) as the entry
\* of the domain, and the entries stay well formed.
C20_LastFinisherAsStated ==
    [][/\ \A t \in Callers :
             FinishesLast(t) => (EntryAfter(t).has /\ EntryAfter(t) = OwnEntry(t))
       /\ EntriesWellFormed']_vars

\* C20, for the lookups that write: a lookup that missed the cache and
\* returns replaces the entry of its domain by its own (value, start time),
\* whatever another lookup wrote meanwhile and whichever started first,
\* except a WHOIS lookup that timed out, which leaves the cache as it is; so
\* after two lookups the entry is that of the last one that wrote, and no
\* entry at all when neither wrote.  The entries stay well formed.
C20_LastWriterWins ==
    [][/\ \A t \in Callers :
             MissCompletes(t) =>
                IF apiCall[t].client = "whois" /\ apiCall'[t].outcome = "timeout"
                THEN whoisCache' = whoisCache /\ sslCache' = sslCache
                ELSE EntryAfter(t).has /\ EntryAfter(t) = OwnEntry(t)
       /\ EntriesWellFormed']_vars

\* Two WHOIS lookups of one domain have overlapped: the one that began first
\* returned last, and its entry, stamped earlier, replaced the other's.
C20_Witness ==
    \E t, u \in Callers :
       /\ t # u
       /\ apiCall[t].pc = "done" /\ apiCall[u].pc = "done"
       /\ apiCall[t].client = "whois" /\ apiCall[u].client = "whois"
       /\ apiCall[t].domain = apiCall[u].domain
       /\ apiCall[t].requests = 1 /\ apiCall[u].requests = 1
       /\ apiCall[t].now < apiCall[u].now
       /\ apiCall[u].outcome = "dated" /\ apiCall[t].outcome = "dated"
       /\ apiCall[t].result # apiCall[u].result
       /\ whoisCache[apiCall[t].domain] = Entry(apiCall[t].result, apiCall[t].now)

\* The recheck of caller t gets no verdict from its analysis in this step:
\* the analysis raised, or its "safe" is neither True nor False.
RecheckNoVerdict(t) ==
    /\ task[t].kind = "recheck" /\ task[t].pc = "await"
    /\ task'[t].pc = "done"
    /\ task'[t].res \in {"undetermined", "raise"}

\* C21: a recheck whose fresh analysis raises or returns an undetermined
\* verdict runs to its return and writes nothing: both stores are left as
\* they were, the URL is in neither, and the records removed when the
\* recheck began are not put back.
C21_NoVerdictLeavesUnknown ==
    [][\A t \in Tasks :
          RecheckNoVerdict(t) =>
             /\ whitelist' = whitelist /\ blacklist' = blacklist
             /\ task[t].url \notin whitelist' \cup blacklist']_vars

\* A URL that was blacklisted, rechecked with an analysis that raised, and
\* now in neither store.
C21_Witness ==
    \E t \in Tasks :
       /\ task[t].kind = "recheck" /\ task[t].pc = "done"
       /\ task[t].res = "raise" /\ task[t].had = "black"
       /\ task[t].url \notin whitelist \cup blacklist

\* The stores a target selects, as stated: by its lower-case form.
StatedStores(target) ==
    IF Lower(target) = <<"w","h","i","t","e","l","i","s","t">> THEN <<"whitelist">>
    ELSE IF Lower(target) = <<"b","l","a","c","k","l","i","s","t">> THEN <<"blacklist">>
    ELSE <<"whitelist", "blacklist">>

\* The records of a store by its name, and how many of them a batch of at
\* most lim entries takes.
StoreOf(name) == IF name = "whitelist" THEN whitelist ELSE blacklist
TakenFrom(names, lim) ==
    IF Len(names) = 1 THEN Min(lim, Cardinality(StoreOf(names[1])))
    ELSE Min(lim, Min(lim, Cardinality(whitelist)) + Min(lim, Cardinality(blacklist)))

\* Caller t's bulk refresh begins in this step.
RefreshStarts(t) == task[t].pc = "idle" /\ task'[t].kind = "refresh"

\* C22: a bulk refresh reads the stores its target selects whatever the
\* case of the letters: whitelist alone, blacklist alone, and both for
\* "all" and for every other text; its batch is made of records of those
\* stores only and has as many entries as they give within the limit.
C22_TargetSelectsStores ==
    [][\A t \in Tasks :
          RefreshStarts(t) =>
             LET sel == StatedStores(task'[t].target)
             IN  /\ task'[t].stores = sel
                 /\ task'[t].batch = TakenFrom(sel, ClampLimit(task'[t].limit))
                 /\ \A i \in 1..Len(task'[t].entries) :
                       \E j \in 1..Len(sel) : task'[t].entries[i] \in StoreOf(sel[j])]_vars

\* A refresh of "Blacklist" that took a blacklisted record while the
\* whitelist had records too.
C22_Witness ==
    \E t \in Tasks :
       /\ task[t].kind = "refresh" /\ task[t].pc = "await"
       /\ task[t].target = <<"B","l","a","c","k","l","i","s","t">>
       /\ task[t].stores = <<"blacklist">>
       /\ task[t].batch = 1
       /\ whitelist # {}

\* C23: in a bulk refresh every entry of the batch is counted exactly once,
\* as processed or as an error: the two counts and the entries still to go
\* add up to the batch, and whitelist + blacklist never exceeds processed,
\* whatever the analyses return and whichever calls raise.
C23_EachEntryCountedOnce ==
    \A t \in Tasks :
       task[t].kind = "refresh" =>
          /\ task[t].summary.processed + task[t].summary.errors + Len(task[t].entries)
                = task[t].batch
          /\ task[t].summary.whitelist + task[t].summary.blacklist
                <= task[t].summary.processed

\* C24: the dict get_ssl_info returns is never the object the cache holds:
\* a caller that writes into it leaves every cached entry as it was, so no
\* later lookup answered from the cache shows the caller's edit.
C24_ReturnedDictIsPrivate ==
    [][\A t \in Callers :
          ( /\ apiCall[t].pc = "done" /\ apiCall'[t].pc = "done"
            /\ apiCall[t].client = "ssl"
            /\ apiCall'[t].result.ssl # apiCall[t].result.ssl ) =>
             sslCache' = sslCache]_vars

\* Caller t's WHOIS request comes back in this step.
WhoisCompletes(t) == apiCall[t].pc = "whois_http" /\ Completes(t)

\* The entry of d is there and younger than 24 h at the clock's time.
WhoisFreshAt(d) ==
    whoisCache[d].has /\ clock - whoisCache[d].ts < 24 * 3600

\* C25: a WHOIS lookup that fails with a status other than 200, an exception
\* other than a timeout or a creation date that cannot be read returns None
\* and caches None with the time the lookup began; a call that finds that
\* entry younger than 24 h returns None with no request and no write.  A
\* lookup that times out returns None and writes nothing, the domain is
\* left without a valid entry, and a call that finds no valid entry performs
\* the request (the client holding its session).
C25_NegativeCaching ==
    [][\A t \in Callers :
          /\ (WhoisCompletes(t) /\ apiCall'[t].outcome \in {"status", "error", "no_date"}) =>
                /\ apiCall'[t].result = ResNone
                /\ whoisCache'[apiCall[t].domain] =
                      [has |-> TRUE, known |-> FALSE, age |-> 0, ts |-> apiCall[t].now]
          /\ (WhoisLookup(t) /\ WhoisFreshAt(apiCall'[t].domain)
                             /\ ~whoisCache[apiCall'[t].domain].known) =>
                /\ apiCall'[t].pc = "done"
                /\ apiCall'[t].result = ResNone
                /\ apiCall'[t].requests = 0
                /\ whoisCache' = whoisCache
          /\ (WhoisCompletes(t) /\ apiCall'[t].outcome = "timeout") =>
                /\ apiCall'[t].result = ResNone
                /\ whoisCache' = whoisCache
                /\ ~WhoisFreshAt(apiCall[t].domain)
          /\ (WhoisLookup(t) /\ ~WhoisFreshAt(apiCall'[t].domain) /\ whois.session) =>
                /\ apiCall'[t].pc = "whois_http"
                /\ apiCall'[t].requests = 1]_vars

\* A call answered None from an entry that an earlier, failed lookup left,
\* twelve hours or more after it.
C25_Witness ==
    \E t \in Callers :
       /\ apiCall[t].client = "whois" /\ apiCall[t].pc = "done"
       /\ apiCall[t].requests = 0 /\ apiCall[t].result = ResNone
       /\ apiCall[t].domain \in CacheKeys
       /\ whoisCache[apiCall[t].domain].has
       /\ ~whoisCache[apiCall[t].domain].known
       /\ apiCall[t].now >= whoisCache[apiCall[t].domain].ts + ClockUnit
       /\ whois.session

\* C26: whatever the interleaving of webhook deliveries and status checks
\* of one payment, at most one license key is generated for it; and a
\* handler that finds the payment succeeded with a key answers success and
\* leaves the user, the key count and the payment row as they are.
C26_OneKeyPerPayment ==
    /\ keysIssued <= 1
    /\ \A p \in PayCallers :
          ( /\ payCall[p].pc = "done" /\ payCall[p].processed
            /\ payCall[p].snap.exists /\ payCall[p].snap.status = "succeeded"
            /\ payCall[p].snap.key # 0 ) =>
             /\ ~payCall[p].generated
             /\ payCall[p].result \in {"success", "succeeded"}

\* C27: a status check that found the row not succeeded and returns
\* "succeeded" has processed the payment: unless a key generation failed,
\* the payment row holds a license key by then.
C27_CheckIssuesKey ==
    \A p \in PayCallers :
       ( /\ payCall[p].kind = "check" /\ payCall[p].pc = "done"
         /\ payCall[p].result = "succeeded"
         /\ payCall[p].found # "succeeded"
         /\ ~payCall[p].gen_failed ) =>
          /\ payCall[p].processed
          /\ payment.key # 0


\* A turn of the polling loop of caller t.
PollTurn(t) == apiCall[t].pc = "vt_poll" /\ apiCall'[t] # apiCall[t]

\* C30: _poll_analysis terminates: it issues at most max_attempts (5) status
\* requests; a turn of its loop either goes on to the next attempt, while
\* attempts remain, or returns the response it has just received, which it
\* does at once when the status is completed and otherwise only after the
\* last attempt.
C30_PollReturnsLastResponse ==
    [][\A t \in Callers :
         PollTurn(t) =>
            /\ apiCall[t].attempt + 1 <= MaxAttempts
            /\ IF apiCall'[t].pc = "vt_poll"
               THEN /\ apiCall'[t].attempt = apiCall[t].attempt + 1
                    /\ apiCall'[t].attempt + 1 <= MaxAttempts
               ELSE /\ apiCall'[t].pc = "done"
                    /\ ~apiCall'[t].raised
                    /\ apiCall'[t].result = ResDict("none", apiCall'[t].outcome)
                    /\ \/ apiCall'[t].outcome = "completed"
                       \/ apiCall[t].attempt + 1 = MaxAttempts]_vars


\* The notifier begins a run, is handling match i, has had its send fail.
NotifierStarts == notifier.pc = "idle" /\ notifier'.pc = "loop"
NotifierHandles(i) == notifier.batch # <<>> /\ Head(notifier.batch) = i
SendFails(i) ==
    /\ notifier.pc = "sending" /\ notifier'.pc = "loop" /\ NotifierHandles(i)
    /\ matches'[i].sends = matches[i].sends

WorkerRunEnds == worker.pc = "loop" /\ worker.batch = <<>>
WorkerStarts == worker.pc = "idle" /\ worker'.pc = "loop"
Recorded(p) == posts[p].processed /\ posts[p].hashes > 0
MatchRules ==
    /\ WorkerStarts => \A p \in worker'.selected : ~posts[p].processed
    /\ \A p \in PostIds : posts[p].processed => posts'[p].processed
    /\ Len(matches') <= Len(matches) + 1
    /\ \A i \in DOMAIN matches' :
          /\ matches'[i].original_post_id # matches'[i].copied_post_id
          /\ ~ChannelRows[posts'[matches'[i].copied_post_id].channel_id].is_protected

====
